---- MODULE Spec2Model ----
(***************************************************************************)
(* Model of the S.A.M. decision engine: DecisionEngine (src/src/sam/       *)
(* decision.py), Orientation (src/sam/core/orientation.py), MaturityTracker*)
(* (src/sam/maturity.py) and MentalHealthMonitor (src/sam/mental_health.py)*)
(*                                                                         *)
(* Numbers.  Python floats are modelled as exact fixed-point integers:     *)
(*   - request urgency/complexity, plan estimates, utility weights and the *)
(*     profile's derived parameters are in hundredths (0.3 is 30);         *)
(*   - goal satisfaction G is in 1e-4 units, utilities and confidences in  *)
(*     1e-6 units (0.524 is 524000);                                       *)
(*   - the mental-health metrics are in 1e-9 units (Nano), so that         *)
(*     (0.3c + 0.4u)(1 - confidence) is exact.                             *)
(***************************************************************************)
EXTENDS Integers, Sequences, FiniteSets, TLC

\* ------------------------------------------------------------------------
\* Units
\* ------------------------------------------------------------------------
Micro == 10^6
Nano == 10^9
PctToMicro(p) == p * 10000
PctToNano(p) == p * 10000000

Min(a, b) == IF a <= b THEN a ELSE b
Max(a, b) == IF a >= b THEN a ELSE b

\* the last n elements of a sequence: Python's s[-n:]
LastN(s, n) == IF Len(s) <= n THEN s ELSE SubSeq(s, Len(s) - n + 1, Len(s))

\* list.append(x): nothing is ever dropped
ListAppend(s, x, n) == Append(s, x)

\* deque(maxlen = n).append(x): the oldest entry is dropped when full
DequeAppend(s, x, n) == LastN(Append(s, x), n)

\* ------------------------------------------------------------------------
\* models.py
\* ------------------------------------------------------------------------
MaturityLevel == <<"infant", "child", "adolescent", "adult">>
Levels == {MaturityLevel[i] : i \in 1..4}
LevelRank(l) == CHOOSE i \in 1..4 : MaturityLevel[i] = l

MentalHealthStatus == {"stable", "excited", "stressed", "recursive", "addictive", "overwhelmed"}

\* ------------------------------------------------------------------------
\* maturity.py: MaturityTracker.MATURITY_CONFIGS (age in months, ratios in
\* hundredths; the adult age range has no upper end)
\* ------------------------------------------------------------------------
MATURITY_CONFIGS ==
  [l \in Levels |->
     CASE l = "infant" ->
            [min_age |-> 0, confidence_threshold |-> 90, supervision_level |-> 95,
             risk_tolerance |-> 10, exploration_rate |-> 10, learning_rate |-> 80,
             max_complexity |-> 30, max_urgency |-> 50, fallback_plans |-> 3,
             recursive_loop_threshold |-> 2, addictive_behavior_threshold |-> 30]
       [] l = "child" ->
            [min_age |-> 6, confidence_threshold |-> 80, supervision_level |-> 70,
             risk_tolerance |-> 30, exploration_rate |-> 30, learning_rate |-> 70,
             max_complexity |-> 60, max_urgency |-> 70, fallback_plans |-> 2,
             recursive_loop_threshold |-> 3, addictive_behavior_threshold |-> 40]
       [] l = "adolescent" ->
            [min_age |-> 18, confidence_threshold |-> 70, supervision_level |-> 40,
             risk_tolerance |-> 50, exploration_rate |-> 50, learning_rate |-> 60,
             max_complexity |-> 80, max_urgency |-> 80, fallback_plans |-> 1,
             recursive_loop_threshold |-> 4, addictive_behavior_threshold |-> 50]
       [] l = "adult" ->
            [min_age |-> 36, confidence_threshold |-> 60, supervision_level |-> 10,
             risk_tolerance |-> 70, exploration_rate |-> 70, learning_rate |-> 50,
             max_complexity |-> 100, max_urgency |-> 100, fallback_plans |-> 1,
             recursive_loop_threshold |-> 5, addictive_behavior_threshold |-> 60]]

\* the five derived parameters of a level, as _progress_to_level and
\* _set_maturity_level copy them into the profile
WithLevelConfig(p, l) ==
  [p EXCEPT !.level = l,
            !.confidence_threshold = MATURITY_CONFIGS[l].confidence_threshold,
            !.supervision_level = MATURITY_CONFIGS[l].supervision_level,
            !.risk_tolerance = MATURITY_CONFIGS[l].risk_tolerance,
            !.exploration_rate = MATURITY_CONFIGS[l].exploration_rate,
            !.learning_rate = MATURITY_CONFIGS[l].learning_rate]

\* MaturityTracker._load_profile, no stored profile
DefaultProfile ==
  [level |-> "infant", age_months |-> 0, experience_points |-> 0,
   confidence_threshold |-> 90, supervision_level |-> 95, risk_tolerance |-> 10,
   exploration_rate |-> 10, learning_rate |-> 80]

\* MentalHealthMetrics as both constructors and reset_metrics build it
DefaultMetrics ==
  [status |-> "stable", stress_level |-> 0, excitement_level |-> 0,
   recursive_loop_count |-> 0, addictive_behavior_score |-> 0,
   impulse_control_score |-> Nano, emotional_stability |-> Nano, burnout_risk |-> 0]

\* ------------------------------------------------------------------------
\* maturity.py: MaturityTracker.  The tracker is the record
\*   [profile, mental_health, decision_history, learning_events,
\*    stored_profile, stored_mental_health, progressions]
\* where stored_* are the two files under data_path and progressions logs,
\* for the operation in progress, every call of _progress_to_level with the
\* tracker as it was when the call was made.
\* ------------------------------------------------------------------------

\* a learning event's outcome dict: quality and complexity in hundredths,
\* -1 when the key is absent
NoOutcome == [quality |-> -1, complexity |-> -1]

\* a decision summary (the dict Learn builds, or the dict a caller hands to
\* record_decision / update_from_decision).  success is "yes", "no" or
\* "absent"; success_rate is 0 when absent, as d.get("success_rate", 0)
\* reads it; validation is goal_type == "validation" or seeking_approval;
\* planning_time_short is planning_time < 1.0 (true when the key is absent).
DecisionData(complexity, urgency, confidence, success, success_rate, validation, short, vsp, status, src) ==
  [complexity |-> complexity, urgency |-> urgency, confidence |-> confidence,
   success |-> success, success_rate |-> success_rate, validation |-> validation,
   planning_time_short |-> short, vsp_level |-> vsp, mental_health_status |-> status,
   src |-> src]

_save_profile(T) == [T EXCEPT !.stored_profile = T.profile]

_save_mental_health(T) == [T EXCEPT !.stored_mental_health = T.mental_health]

get_current_config(T) == MATURITY_CONFIGS[T.profile.level]

can_handle_complexity(T, complexity) == complexity <= get_current_config(T).max_complexity

\* a check of the urgency against the range of the field, not the level
UrgencyWithinRange(T, urgency) == urgency <= 100

can_handle_urgency(T, urgency) == urgency <= get_current_config(T).max_urgency

get_fallback_plan_count(T) == get_current_config(T).fallback_plans

BasePoints(event_type) ==
  CASE event_type = "successful_decision" -> 10
    [] event_type = "failed_decision" -> 5
    [] event_type = "complex_task" -> 15
    [] event_type = "safety_violation" -> 2
    [] event_type = "mental_health_intervention" -> 3
    [] event_type = "recursive_loop_detected" -> 1
    [] event_type = "addictive_behavior_detected" -> 1
    [] OTHER -> 1

\* a gain that multiplies by both factors and truncates once, at the end
GainTruncatedOnce(event_type, outcome) ==
  LET p0 == BasePoints(event_type)
      q == IF outcome.quality >= 0 THEN outcome.quality ELSE 100
      c == IF outcome.complexity >= 0 THEN 100 + outcome.complexity ELSE 100
  IN Max(1, (p0 * q * c) \div 10000)

\* int(x) truncates; the operands are non-negative here
_calculate_experience_gain(event_type, outcome) ==
  LET p0 == BasePoints(event_type)
      p1 == IF outcome.quality >= 0 THEN (p0 * outcome.quality) \div 100 ELSE p0
      p2 == IF outcome.complexity >= 0 THEN (p1 * (100 + outcome.complexity)) \div 100 ELSE p1
  IN Max(1, p2)

\* the level before the current one
PreviousLevel(current_level) ==
  CASE current_level = "child" -> "infant"
    [] current_level = "adolescent" -> "child"
    [] current_level = "adult" -> "adolescent"
    [] OTHER -> "none"

_get_next_level(current_level) ==
  CASE current_level = "infant" -> "child"
    [] current_level = "child" -> "adolescent"
    [] current_level = "adolescent" -> "adult"
    [] OTHER -> "none"

RecentWindow == 50
RequiredGood == 30
GoodRate == 80

GoodDecisions(history) ==
  Cardinality({i \in DOMAIN LastN(history, RecentWindow) :
                  LastN(history, RecentWindow)[i].data.success_rate > GoodRate})

\* readiness without the look at the recent decisions
ReadyWithoutHistory(T, next_level) ==
  LET min_age == MATURITY_CONFIGS[next_level].min_age IN
  /\ T.profile.age_months >= min_age
  /\ T.profile.experience_points >= min_age * 100
  /\ T.mental_health.status = "stable"
  /\ T.mental_health.stress_level <= PctToNano(70)
  /\ T.mental_health.burnout_risk <= PctToNano(50)

\* readiness without the look at the age
ReadyAtAnyAge(T, next_level) ==
  LET min_age == MATURITY_CONFIGS[next_level].min_age IN
  /\ T.profile.experience_points >= min_age * 100
  /\ T.mental_health.status = "stable"
  /\ T.mental_health.stress_level <= PctToNano(70)
  /\ T.mental_health.burnout_risk <= PctToNano(50)
  /\ GoodDecisions(T.decision_history) >= RequiredGood

_is_ready_for_next_level(T, next_level) ==
  LET min_age == MATURITY_CONFIGS[next_level].min_age IN
  IF T.profile.age_months < min_age THEN FALSE
  ELSE IF T.profile.experience_points < min_age * 100 THEN FALSE
  ELSE IF T.mental_health.status # "stable" THEN FALSE
  ELSE IF T.mental_health.stress_level > PctToNano(70)
            \/ T.mental_health.burnout_risk > PctToNano(50) THEN FALSE
  ELSE IF GoodDecisions(T.decision_history) < RequiredGood THEN FALSE
  ELSE TRUE

RECURSIVE record_learning_event(_, _, _)
RECURSIVE _assess_maturity_progression(_)
RECURSIVE _progress_to_level(_, _)

\* a progression that sets the level and keeps the parameters
ProgressLevelOnly(T, new_level) ==
  record_learning_event(
    [T EXCEPT !.progressions =
                Append(@, [from |-> T.profile.level, to |-> new_level,
                           profile |-> T.profile, mental_health |-> T.mental_health,
                           decision_history |-> T.decision_history]),
              !.profile.level = new_level],
    "maturity_progression", NoOutcome)

_progress_to_level(T, new_level) ==
  LET logged == [T EXCEPT !.progressions =
                   Append(@, [from |-> T.profile.level, to |-> new_level,
                              profile |-> T.profile, mental_health |-> T.mental_health,
                              decision_history |-> T.decision_history])]
      T1 == [logged EXCEPT !.profile = WithLevelConfig(@, new_level)]
  IN record_learning_event(T1, "maturity_progression", NoOutcome)

_assess_maturity_progression(T) ==
  LET next_level == _get_next_level(T.profile.level) IN
  IF next_level # "none" /\ _is_ready_for_next_level(T, next_level)
  THEN _progress_to_level(T, next_level)
  ELSE T

record_learning_event(T, event_type, outcome) ==
  LET T1 == [T EXCEPT !.learning_events =
                        Append(@, [type |-> event_type, maturity_level |-> T.profile.level]),
                      !.profile.experience_points =
                        @ + _calculate_experience_gain(event_type, outcome)]
  IN _save_profile(_assess_maturity_progression(T1))

record_decision(T, decision_data) ==
  LET T1 == [T EXCEPT !.decision_history =
                        Append(@, [data |-> decision_data, maturity_level |-> T.profile.level])]
  IN _save_profile(_assess_maturity_progression(T1))

\* an intervention that raises the supervision and keeps the counter
InterveneWithoutReset(T) ==
  record_learning_event([T EXCEPT !.profile.supervision_level = Min(100, @ + 20)],
                        "recursive_loop_intervention", NoOutcome)

_intervene_recursive_loop(T) ==
  LET T1 == [T EXCEPT !.mental_health.recursive_loop_count = 0,
                      !.profile.supervision_level = Min(100, @ + 20)]
  IN record_learning_event(T1, "recursive_loop_intervention", NoOutcome)

_intervene_addictive_behavior(T) ==
  LET T1 == [T EXCEPT !.mental_health.addictive_behavior_score = 0,
                      !.mental_health.impulse_control_score = Min(Nano, @ + PctToNano(10))]
  IN record_learning_event(T1, "addictive_behavior_intervention", NoOutcome)

\* a burnout intervention that subtracts without the floor at 0
InterveneBurnoutUnfloored(T) ==
  record_learning_event(
    [T EXCEPT !.mental_health.stress_level = @ - PctToNano(30),
              !.mental_health.burnout_risk = @ - PctToNano(30),
              !.mental_health.emotional_stability = Min(Nano, @ + PctToNano(10))],
    "burnout_intervention", NoOutcome)

_intervene_burnout(T) ==
  LET T1 == [T EXCEPT !.mental_health.stress_level = Max(0, @ - PctToNano(30)),
                      !.mental_health.burnout_risk = Max(0, @ - PctToNano(30)),
                      !.mental_health.emotional_stability = Min(Nano, @ + PctToNano(10))]
  IN record_learning_event(T1, "burnout_intervention", NoOutcome)

\* config is read once, before the first intervention
_check_mental_health_interventions(T) ==
  LET config == get_current_config(T)
      Burnout(T2) ==
        IF T2.mental_health.burnout_risk > PctToNano(80) THEN _intervene_burnout(T2) ELSE T2
      Addictive(T1) ==
        Burnout(IF T1.mental_health.addictive_behavior_score >= PctToNano(config.addictive_behavior_threshold)
                THEN _intervene_addictive_behavior(T1) ELSE T1)
  IN Addictive(IF T.mental_health.recursive_loop_count >= config.recursive_loop_threshold
               THEN _intervene_recursive_loop(T) ELSE T)

update_mental_health(T, m) ==
  _check_mental_health_interventions(_save_mental_health([T EXCEPT !.mental_health = m]))

\* ------------------------------------------------------------------------
\* mental_health.py: MentalHealthMonitor.  The monitor is the record
\*   [metrics, decision_history, thought_patterns, emotional_events,
\*    last_intervention]
\* last_intervention is -1 for None, else the minute reset_metrics ran.
\* A thought pattern is [type, repetition_count, similarity_score, inputs,
\* outputs]; an emotional event is [type, intensity].
\* ------------------------------------------------------------------------
DecisionHistoryMaxlen == 100
ThoughtPatternsMaxlen == 50
EmotionalEventsMaxlen == 200
InterventionCooldown == 30

\* self.thresholds
thresholds ==
  [stress_high |-> PctToNano(70), excitement_high |-> PctToNano(80), recursive_loop |-> 3,
   addictive_behavior |-> PctToNano(60), burnout_risk |-> PctToNano(80),
   emotional_instability |-> 30]

_analyze_decision_impact(M, d) ==
  LET success == d.success # "no"
      base == (d.complexity * 3 + d.urgency * 4) * (Micro - d.confidence)
      stress_increase == IF success THEN base ELSE (base * 3) \div 2
      m1 == [M.metrics EXCEPT !.stress_level = Min(Nano, @ + stress_increase)]
      m2 == IF success /\ d.confidence > PctToMicro(80)
            THEN [m1 EXCEPT !.excitement_level = Min(Nano, @ + d.confidence * 100)]
            ELSE m1
      m3 == IF d.complexity > 80 /\ d.urgency > 80
            THEN [m2 EXCEPT !.burnout_risk = Min(Nano, @ + PctToNano(5))]
            ELSE m2
  IN [M EXCEPT !.metrics = m3]

\* decay_rate is scaled for the personality only after it has been applied:
\* scaled_rate is the value the local variable ends with, which nothing reads
_update_emotional_state(M, d) ==
  LET decay_rate == PctToNano(5)
      decayed == [M EXCEPT !.metrics.stress_level = Max(0, @ - decay_rate),
                           !.metrics.excitement_level = Max(0, @ - decay_rate)]
      scaled_rate ==
        IF M.personality_influence.tone = "none" THEN decay_rate
        ELSE IF M.personality_influence.analytical > 70 THEN (decay_rate * 12) \div 10
        ELSE IF M.personality_influence.analytical < 30 THEN (decay_rate * 8) \div 10
        ELSE decay_rate
  IN decayed

_detect_addictive_behavior(M) ==
  IF Len(M.decision_history) < 10 THEN M
  ELSE LET recent_decisions == LastN(M.decision_history, 20)
           validation_seeking == Cardinality({i \in DOMAIN recent_decisions : recent_decisions[i].validation})
       IN IF validation_seeking * 10 > Len(recent_decisions) * 3
          THEN [M EXCEPT !.metrics.addictive_behavior_score = Min(Nano, @ + PctToNano(10))]
          ELSE M

_detect_impulse_control_issues(M) ==
  IF Len(M.decision_history) < 5 THEN M
  ELSE LET recent_decisions == LastN(M.decision_history, 10)
           impulsive_decisions ==
             Cardinality({i \in DOMAIN recent_decisions :
                            recent_decisions[i].planning_time_short /\ recent_decisions[i].complexity > 50})
       IN IF impulsive_decisions * 10 > Len(recent_decisions) * 4
          THEN [M EXCEPT !.metrics.impulse_control_score = Max(0, @ - PctToNano(5))]
          ELSE M

_detect_burnout_indicators(M) ==
  IF M.metrics.stress_level > PctToNano(70) /\ M.metrics.burnout_risk > PctToNano(50)
       /\ Len(M.decision_history) >= 10
  THEN LET recent_decisions == LastN(M.decision_history, 10)
           successes == Cardinality({i \in DOMAIN recent_decisions : recent_decisions[i].success = "yes"})
       IN IF successes * 10 < Len(recent_decisions) * 6
          THEN [M EXCEPT !.metrics.burnout_risk = Min(Nano, @ + PctToNano(10))]
          ELSE M
  ELSE M

_detect_problematic_patterns(M) ==
  _detect_burnout_indicators(_detect_impulse_control_issues(_detect_addictive_behavior(M)))

\* the priority table of _update_mental_health_status
StatusOf(m) ==
  IF m.stress_level > thresholds.stress_high THEN "stressed"
  ELSE IF m.excitement_level > thresholds.excitement_high THEN "excited"
  ELSE IF m.recursive_loop_count >= thresholds.recursive_loop THEN "recursive"
  ELSE IF m.addictive_behavior_score >= thresholds.addictive_behavior THEN "addictive"
  ELSE IF m.burnout_risk >= thresholds.burnout_risk THEN "overwhelmed"
  ELSE "stable"

\* a status refresh that looks at the loop counter before the stress level
StatusLoopsFirst(M) ==
  [M EXCEPT !.metrics.status =
     IF M.metrics.recursive_loop_count >= thresholds.recursive_loop THEN "recursive"
     ELSE StatusOf(M.metrics)]

_update_mental_health_status(M) == [M EXCEPT !.metrics.status = StatusOf(M.metrics)]

\* update_from_decision up to the place where _update_emotional_state reads
\* personality_influence.analytical and that read raises (the monitor was
\* given a personality that is no PersonalityInfluence): the decision is
\* appended, its impact and the decay are applied, the status is not refreshed
UpdateFromDecisionRaising(M, d) ==
  _update_emotional_state(
    _analyze_decision_impact([M EXCEPT !.decision_history = DequeAppend(@, d, DecisionHistoryMaxlen)], d), d)

update_from_decision(M, d) ==
  LET M1 == [M EXCEPT !.decision_history = DequeAppend(@, d, DecisionHistoryMaxlen)]
      M2 == _analyze_decision_impact(M1, d)
      M3 == _update_emotional_state(M2, d)
      M4 == _detect_problematic_patterns(M3)
  IN _update_mental_health_status(M4)

_analyze_thought_pattern(M, pattern) ==
  LET m1 == IF pattern.repetition_count > 3 /\ pattern.similarity_score > 80
            THEN [M.metrics EXCEPT !.recursive_loop_count = @ + 1] ELSE M.metrics
      m2 == IF pattern.type = "validation_seeking" /\ pattern.repetition_count > 2
            THEN [m1 EXCEPT !.addictive_behavior_score = Min(Nano, @ + PctToNano(10))] ELSE m1
      m3 == IF pattern.type = "impulsive" /\ pattern.repetition_count > 1
            THEN [m2 EXCEPT !.impulse_control_score = Max(0, @ - PctToNano(5))] ELSE m2
  IN [M EXCEPT !.metrics = m3]

_is_circular_reference(pattern1, pattern2) ==
  /\ pattern1.outputs \cap pattern2.inputs # {}
  /\ pattern2.outputs \cap pattern1.inputs # {}

_detect_recursive_loops(M) ==
  IF Len(M.thought_patterns) < 5 THEN M
  ELSE LET recent_patterns == LastN(M.thought_patterns, 10)
           circular_count ==
             Cardinality({ij \in (DOMAIN recent_patterns) \X (DOMAIN recent_patterns) :
                            /\ ij[1] < ij[2]
                            /\ _is_circular_reference(recent_patterns[ij[1]], recent_patterns[ij[2]])})
       IN IF circular_count >= 2
          THEN [M EXCEPT !.metrics.recursive_loop_count = @ + 1]
          ELSE M

update_from_thought_pattern(M, pattern) ==
  LET M1 == [M EXCEPT !.thought_patterns = DequeAppend(@, pattern, ThoughtPatternsMaxlen)]
  IN _detect_recursive_loops(_analyze_thought_pattern(M1, pattern))

\* stability_change in 1e-9 units for an intensity in hundredths
_update_emotional_stability(M, event_type, intensity) ==
  LET stability_change ==
        CASE event_type = "success" -> 200000 * intensity
          [] event_type = "failure" -> -300000 * intensity
          [] event_type = "surprise" -> -100000 * intensity
          [] event_type = "validation" -> 100000 * intensity
          [] event_type = "rejection" -> -200000 * intensity
          [] OTHER -> 0
  IN [M EXCEPT !.metrics.emotional_stability = Max(0, Min(Nano, @ + stability_change))]

RECURSIVE SumSeq(_)
SumSeq(s) == IF s = <<>> THEN 0 ELSE Head(s) + SumSeq(Tail(s))

\* _calculate_volatility(values) > threshold, for values and threshold in
\* hundredths: sqrt(sum((x - mean)^2) / n) > t  iff  n*sum(x^2) - sum(x)^2 > t^2 * n^2
VolatilityAbove(values, threshold) ==
  LET n == Len(values)
      sum == SumSeq(values)
      squares == SumSeq([i \in DOMAIN values |-> values[i] * values[i]])
  IN IF n < 2 THEN 0 > threshold
     ELSE n * squares - sum * sum > threshold * threshold * n * n

_check_emotional_instability(M) ==
  IF Len(M.emotional_events) < 10 THEN M
  ELSE LET recent_events == LastN(M.emotional_events, 20)
           intensities == [i \in DOMAIN recent_events |-> recent_events[i].intensity]
       IN IF VolatilityAbove(intensities, thresholds.emotional_instability)
          THEN [M EXCEPT !.metrics.emotional_stability = Max(0, @ - PctToNano(5))]
          ELSE M

record_emotional_event(M, event_type, intensity) ==
  LET M1 == [M EXCEPT !.emotional_events =
                        DequeAppend(@, [type |-> event_type, intensity |-> intensity], EmotionalEventsMaxlen)]
  IN _check_emotional_instability(_update_emotional_stability(M1, event_type, intensity))

\* a cooldown that still holds at the moment it runs out
InterveneAfterCooldown(M, t) ==
  IF M.last_intervention # -1 /\ t - M.last_intervention <= InterventionCooldown THEN FALSE
  ELSE \/ M.metrics.stress_level > PctToNano(80)
       \/ M.metrics.excitement_level > PctToNano(90)
       \/ M.metrics.recursive_loop_count >= 3
       \/ M.metrics.addictive_behavior_score > PctToNano(70)
       \/ M.metrics.burnout_risk > PctToNano(80)
       \/ M.metrics.emotional_stability < PctToNano(30)

should_intervene(M, t) ==
  IF M.last_intervention # -1 /\ t - M.last_intervention < InterventionCooldown THEN FALSE
  ELSE \/ M.metrics.stress_level > PctToNano(80)
       \/ M.metrics.excitement_level > PctToNano(90)
       \/ M.metrics.recursive_loop_count >= 3
       \/ M.metrics.addictive_behavior_score > PctToNano(70)
       \/ M.metrics.burnout_risk > PctToNano(80)
       \/ M.metrics.emotional_stability < PctToNano(30)

reset_metrics(M, t) == [M EXCEPT !.metrics = DefaultMetrics, !.last_intervention = t]

\* ------------------------------------------------------------------------
\* The engine's object graph is the record
\*   [tracker, monitor, aliased, orientation]
\* aliased: tracker.mental_health and monitor.metrics are one object, which
\* is so from the moment update_mental_health is handed the monitor's own
\* metrics (Learn does it) until reset_metrics builds a new one.  A write
\* through either name is then a write to both.
\* ------------------------------------------------------------------------
TrackerWrites(W, T) ==
  [W EXCEPT !.tracker = T,
            !.monitor.metrics = IF W.aliased THEN T.mental_health ELSE @]

MonitorWrites(W, M) ==
  [W EXCEPT !.monitor = M,
            !.tracker.mental_health = IF W.aliased THEN M.metrics ELSE @]

\* tracker.update_mental_health(monitor.get_current_metrics())
UpdateMentalHealthFromMonitor(W) ==
  TrackerWrites([W EXCEPT !.aliased = TRUE], update_mental_health(W.tracker, W.monitor.metrics))

\* monitor.reset_metrics(): the tracker keeps the object it was given
ResetMonitorMetrics(W, t) ==
  [W EXCEPT !.monitor = reset_metrics(W.monitor, t), !.aliased = FALSE]

\* ------------------------------------------------------------------------
\* core/orientation.py: Orientation.  orientation is the record
\*   [vsp_level, current_mode, cycle_count, phases]
\* phases holds the phase lines ("SENSE: ...", "EVALUATE: ...", ...) the
\* cycle in progress has written to the debug log, in the order written.
\* A goal is the set of the code's keywords its lower-cased text contains; a
\* context is the set of its truthy flags.
\* ------------------------------------------------------------------------
HasAny(goal, words) == goal \cap words # {}

\* logger.debug("<PHASE>: ...") at the head of a phase
Enter(W, phase) == [W EXCEPT !.orientation.phases = Append(@, phase)]

_assess_vsp_level(request, mental_health) ==
  LET base_vsp ==
          (IF request.complexity > 80 THEN 30 ELSE 0)
        + (IF request.urgency > 80 THEN 20 ELSE 0)
        + (IF mental_health.status # "stable" THEN 20 ELSE 0)
        + (IF mental_health.stress_level > PctToNano(70) THEN 15 ELSE 0)
        + (IF mental_health.emotional_stability < PctToNano(50) THEN 10 ELSE 0)
  IN Min(100, base_vsp)

_classify_goal_type(goal) ==
  IF HasAny(goal, {"answer", "what", "how", "why"}) THEN "answer"
  ELSE IF HasAny(goal, {"find", "search", "retrieve", "get"}) THEN "retrieve"
  ELSE IF HasAny(goal, {"create", "generate", "make", "build"}) THEN "create"
  ELSE IF HasAny(goal, {"analyze", "examine", "study", "investigate"}) THEN "analyze"
  ELSE IF HasAny(goal, {"plan", "strategy", "approach"}) THEN "plan"
  ELSE "tool"

_analyze_goal(goal, context) ==
  LET complexity ==
          50
        + (IF HasAny(goal, {"analyze", "complex"}) THEN 20 ELSE 0)
        + (IF HasAny(goal, {"create", "generate"}) THEN 15 ELSE 0)
        + (IF HasAny(goal, {"plan", "strategy"}) THEN 10 ELSE 0)
        + (IF "requires_external_data" \in context THEN 10 ELSE 0)
        + (IF "requires_multiple_steps" \in context THEN 15 ELSE 0)
        + (IF "time_sensitive" \in context THEN 10 ELSE 0)
  IN [complexity |-> Min(100, complexity), type |-> _classify_goal_type(goal)]

_select_decoding_mode(request, state, goal_analysis) ==
  IF request.urgency > 90 \/ state.vsp_level > 80 THEN "crisis"
  ELSE IF goal_analysis.complexity > 70 \/ goal_analysis.type \in {"analyze", "plan"} THEN "deep"
  ELSE "flow"

\* a Sense that already counts the request as a stressful decision
SenseStressing(W, request) ==
  [W |-> [Enter(W, "sense") EXCEPT !.monitor.metrics.stress_level = Min(Nano, @ + PctToNano(10)),
                                   !.orientation.vsp_level = _assess_vsp_level(request, W.monitor.metrics)],
   state |-> [mental_health |-> [status |-> W.monitor.metrics.status,
                                 stress_level |-> W.monitor.metrics.stress_level,
                                 excitement_level |-> W.monitor.metrics.excitement_level,
                                 emotional_stability |-> W.monitor.metrics.emotional_stability],
              maturity_level |-> W.tracker.profile.level,
              vsp_level |-> _assess_vsp_level(request, W.monitor.metrics)]]

\* SENSE: the state bundle, and the two attributes it leaves on the instance
_sense(W, request) ==
  LET mental_health == W.monitor.metrics
      vsp_level == _assess_vsp_level(request, mental_health)
      state == [mental_health |-> [status |-> mental_health.status,
                                   stress_level |-> mental_health.stress_level,
                                   excitement_level |-> mental_health.excitement_level,
                                   emotional_stability |-> mental_health.emotional_stability],
                maturity_level |-> W.tracker.profile.level,
                vsp_level |-> vsp_level]
  IN [W |-> [Enter(W, "sense") EXCEPT !.orientation.vsp_level = vsp_level], state |-> state]

\* EVALUATE
\* dict.get(key, default)
Get(dict, key, default) ==
  IF \E pair \in dict : pair[1] = key THEN (CHOOSE pair \in dict : pair[1] = key)[2] ELSE default

\* thresholds in hundredths, time_limit in seconds
_define_success_criteria(request, goal_analysis) ==
  [completion |-> TRUE, quality_threshold |-> 70,
   time_limit |-> Get(request.constraints, "time_limit", 300),
   accuracy_threshold |-> IF goal_analysis.type = "answer" THEN 80 ELSE 60,
   safety_compliance |-> TRUE, user_satisfaction |-> TRUE]

_evaluate(W, request, state) ==
  LET goal_analysis == _analyze_goal(request.goal, request.context)
      decoding_mode == _select_decoding_mode(request, state, goal_analysis)
      evaluation == [goal_analysis |-> goal_analysis,
                     success_criteria |-> _define_success_criteria(request, goal_analysis),
                     decoding_mode |-> decoding_mode,
                     complexity_score |-> goal_analysis.complexity,
                     urgency_score |-> request.urgency,
                     confidence_required |-> W.tracker.profile.confidence_threshold]
  IN [W |-> [Enter(W, "evaluate") EXCEPT !.orientation.current_mode = decoding_mode],
      evaluation |-> evaluation]

\* _create_plan: the id stands for the fresh uuid4 of the plan
_create_plan(W, strategy, steps, quality, risk, spend) ==
  [id |-> <<W.orientation.cycle_count, strategy>>, strategy |-> strategy, steps |-> steps,
   estimates |-> [quality |-> quality, risk |-> risk, spend |-> spend]]

\* candidates without regard to the maturity level
GenerateAllCandidates(W) ==
  << _create_plan(W, "conservative", 3, 80, 20, 60),
     _create_plan(W, "balanced", 5, 70, 40, 80),
     _create_plan(W, "aggressive", 7, 60, 60, 100) >>

_generate_candidate_plans(W) ==
  LET plans == << _create_plan(W, "conservative", 3, 80, 20, 60),
                  _create_plan(W, "balanced", 5, 70, 40, 80) >>
  IN IF W.tracker.profile.level \in {"adolescent", "adult"}
     THEN Append(plans, _create_plan(W, "aggressive", 7, 60, 60, 100))
     ELSE plans

\* G in 1e-4 units
_calculate_goal_satisfaction(plan, evaluation) ==
  LET goal_type == evaluation.goal_analysis.type IN
  IF goal_type = "answer" THEN Min(10000, plan.estimates.quality * 120)
  ELSE IF goal_type = "retrieve" THEN Min(10000, plan.estimates.quality * 110)
  ELSE IF goal_type = "create" THEN Min(10000, plan.estimates.quality * 90)
  ELSE plan.estimates.quality * 100

_get_utility_weights(W) ==
  LET level == W.tracker.profile.level IN
  CASE level = "infant" -> [goal |-> 40, quality |-> 30, risk |-> 20, spend |-> 10]
    [] level = "child" -> [goal |-> 35, quality |-> 30, risk |-> 20, spend |-> 15]
    [] level = "adolescent" -> [goal |-> 30, quality |-> 30, risk |-> 20, spend |-> 20]
    [] OTHER -> [goal |-> 25, quality |-> 30, risk |-> 20, spend |-> 25]

\* utility in 1e-6 units
ScorePlan(W, plan, evaluation) ==
  LET G == _calculate_goal_satisfaction(plan, evaluation)
      weights == _get_utility_weights(W)
      utility == weights.goal * G + weights.quality * plan.estimates.quality * 100
                   - weights.risk * plan.estimates.risk * 100
                   - weights.spend * plan.estimates.spend * 100
  IN [plan |-> plan, utility_score |-> utility]

\* list.sort(key, reverse=True) is stable: equal scores keep their order
RECURSIVE SortDescending(_)
SortDescending(s) ==
  IF s = <<>> THEN <<>>
  ELSE LET best == CHOOSE i \in DOMAIN s :
                     /\ \A j \in DOMAIN s : s[j].utility_score <= s[i].utility_score
                     /\ \A j \in 1..(i - 1) : s[j].utility_score < s[i].utility_score
           rest == [k \in 1..(Len(s) - 1) |-> IF k < best THEN s[k] ELSE s[k + 1]]
       IN <<s[best]>> \o SortDescending(rest)

\* a scoring that leaves the list in ascending order of utility
ScorePlansAscending(W, plans, evaluation) ==
  LET sorted == SortDescending([i \in DOMAIN plans |-> ScorePlan(W, plans[i], evaluation)])
  IN [i \in DOMAIN sorted |-> sorted[Len(sorted) + 1 - i]]

_score_plans(W, plans, evaluation) ==
  SortDescending([i \in DOMAIN plans |-> ScorePlan(W, plans[i], evaluation)])

\* a selection that takes the plan at the other end of the sorted list
SelectLastPlan(scored_plans, evaluation) ==
  [plan |-> scored_plans[Len(scored_plans)].plan,
   confidence |-> scored_plans[Len(scored_plans)].utility_score,
   warnings |-> << >>]

\* a selection that warns when the confidence is above the threshold
SelectWarningAboveThreshold(scored_plans, evaluation) ==
  LET best_plan == scored_plans[1]
      confidence == best_plan.utility_score
      required_confidence == PctToMicro(evaluation.confidence_required)
  IN [plan |-> best_plan.plan, confidence |-> confidence,
      warnings |-> IF confidence > required_confidence
                   THEN << [text |-> "Low confidence", arg |-> "threshold"] >>
                   ELSE << >>]

_select_best_plan(scored_plans, evaluation) ==
  LET best_plan == scored_plans[1]
      confidence == best_plan.utility_score
      required_confidence == PctToMicro(evaluation.confidence_required)
  IN [plan |-> best_plan.plan, confidence |-> confidence,
      warnings |-> IF confidence < required_confidence
                   THEN << [text |-> "Low confidence", arg |-> "threshold"] >>
                   ELSE << >>]

_prepare_fallback_plans(W, scored_plans) ==
  LET fallback_count == get_fallback_plan_count(W.tracker) IN
  IF fallback_count <= 1 THEN << >>
  ELSE [k \in 1..(Min(Len(scored_plans), fallback_count) - 1) |-> scored_plans[k + 1].plan]

\* a Plan phase whose result names a trace id of its own making
PlanWithOwnTraceId(W, request, state, evaluation) ==
  LET candidate_plans == _generate_candidate_plans(W)
      scored_plans == _score_plans(W, candidate_plans, evaluation)
      selected_plan == _select_best_plan(scored_plans, evaluation)
      trace == [id |-> <<W.orientation.cycle_count, "trace">>,
                vsp |-> W.orientation.vsp_level,
                mode |-> W.orientation.current_mode,
                candidates |-> [i \in DOMAIN scored_plans |->
                                  [id |-> scored_plans[i].plan.id, U |-> scored_plans[i].utility_score]],
                winner |-> selected_plan.plan.id,
                mental_health |-> state.mental_health.status,
                maturity_level |-> W.tracker.profile.level]
  IN [W |-> [Enter(W, "plan") EXCEPT
               !.orientation.planned = [candidate_plans |-> candidate_plans,
                                        fallback_plans |-> _prepare_fallback_plans(W, scored_plans)]],
      selected_plan |-> selected_plan.plan,
      confidence |-> selected_plan.confidence,
      fallback_plans |-> _prepare_fallback_plans(W, scored_plans),
      trace_id |-> <<W.orientation.cycle_count, "uuid4-trace">>,
      trace |-> trace,
      warnings |-> selected_plan.warnings]

\* PLAN: the trace reads the instance attributes vsp_level and current_mode
_plan(W, request, state, evaluation) ==
  LET candidate_plans == _generate_candidate_plans(W)
      scored_plans == _score_plans(W, candidate_plans, evaluation)
      selected_plan == _select_best_plan(scored_plans, evaluation)
      trace == [id |-> <<W.orientation.cycle_count, "trace">>,
                vsp |-> W.orientation.vsp_level,
                mode |-> W.orientation.current_mode,
                candidates |-> [i \in DOMAIN scored_plans |->
                                  [id |-> scored_plans[i].plan.id, U |-> scored_plans[i].utility_score]],
                winner |-> selected_plan.plan.id,
                mental_health |-> state.mental_health.status,
                maturity_level |-> W.tracker.profile.level]
  IN [W |-> [Enter(W, "plan") EXCEPT
               !.orientation.planned = [candidate_plans |-> candidate_plans,
                                        fallback_plans |-> _prepare_fallback_plans(W, scored_plans)]],
      selected_plan |-> selected_plan.plan,
      confidence |-> selected_plan.confidence,
      fallback_plans |-> _prepare_fallback_plans(W, scored_plans),
      trace_id |-> trace.id,
      trace |-> trace,
      warnings |-> selected_plan.warnings]

_validate_plan(plan) ==
  /\ plan.steps > 0
  /\ ~(plan.estimates.risk > 90)
  /\ ~(plan.estimates.quality < 30)

\* ACT: allocation and the safety check always succeed
\* tokens, and time_seconds rounded down
_allocate_resources(plan) ==
  [allocated |-> TRUE, tokens |-> plan.estimates.spend * 20,
   time_seconds |-> (plan.estimates.spend * 60) \div 100]

_perform_safety_checks(plan) ==
  [safe |-> TRUE,
   warnings |-> IF plan.estimates.risk > 70
                THEN <<"High-risk plan requires additional review">> ELSE << >>]

_act(W, plan_result) ==
  [W |-> Enter(W, "act"),
   plan_id |-> plan_result.selected_plan.id,
   ready_for_execution |-> /\ _validate_plan(plan_result.selected_plan)
                           /\ _allocate_resources(plan_result.selected_plan).allocated
                           /\ _perform_safety_checks(plan_result.selected_plan).safe]

get_intervention_recommendations(M) ==
  CASE M.metrics.status = "stressed" ->
         <<"Reduce task complexity", "Increase planning time",
           "Take breaks between decisions", "Use simpler decision strategies">>
    [] M.metrics.status = "excited" ->
         <<"Implement cooling-off periods", "Add validation steps",
           "Review decisions before execution", "Reduce novelty-seeking behavior">>
    [] M.metrics.status = "recursive" ->
         <<"Break circular thought patterns", "Introduce external constraints",
           "Use different problem-solving approaches", "Implement thought termination techniques">>
    [] M.metrics.status = "addictive" ->
         <<"Reduce validation-seeking behavior", "Focus on intrinsic motivation",
           "Implement delayed gratification", "Diversify goal types">>
    [] M.metrics.status = "overwhelmed" ->
         <<"Reduce workload", "Implement stress management techniques",
           "Increase supervision and support", "Focus on simpler tasks">>
    [] OTHER -> << >>

_generate_learning_recommendations(W, state, plan_result) ==
     (IF state.mental_health.status # "stable"
      THEN get_intervention_recommendations(W.monitor) ELSE << >>)
  \o (IF W.tracker.profile.level = "infant"
      THEN <<"Consider simpler approaches for complex tasks">> ELSE << >>)
  \o (IF plan_result.confidence < PctToMicro(70)
      THEN <<"Consider gathering more information before deciding">> ELSE << >>)

\* The places where an exception may surface inside a cycle.  The code of the
\* phases raises nothing on well-formed requests; an exception there comes
\* from the platform (MemoryError, a failing collaborator or a patched
\* method), so where it surfaces is an input of the cycle.  "learn_0" is a
\* raise in Learn before record_decision, "learn_1" after record_decision,
\* "learn_monitor" inside update_from_decision (UpdateFromDecisionRaising),
\* "learn_2" after update_from_decision, "learn_3" after update_mental_health.
FailPoints ==
  {"none", "sense", "evaluate", "plan", "act", "learn_0", "learn_1", "learn_monitor", "learn_2", "learn_3"}

\* a Learn phase that updates the monitor before it records the decision
LearnMonitorFirst(W, request, state, evaluation, plan_result, action_result, fail) ==
  LET Raised(Wr) == [W |-> Wr, raised |-> TRUE, recommendations |-> << >>]
      Recommend(W3) ==
        IF fail = "learn_3" THEN Raised(W3)
        ELSE [W |-> W3, raised |-> FALSE,
              recommendations |-> _generate_learning_recommendations(W3, state, plan_result)]
      UpdateTracker(W2) ==
        IF fail = "learn_2" THEN Raised(W2) ELSE Recommend(UpdateMentalHealthFromMonitor(W2))
      Record(W1, decision_data) ==
        IF fail = "learn_1" THEN Raised(W1)
        ELSE UpdateTracker(TrackerWrites(W1, record_decision(W1.tracker, decision_data)))
      UpdateMonitor(W0, decision_data) ==
        IF fail = "learn_0" THEN Raised(W0)
        ELSE IF fail = "learn_monitor"
        THEN Raised(MonitorWrites(W0, UpdateFromDecisionRaising(W0.monitor, decision_data)))
        ELSE Record(MonitorWrites(W0, update_from_decision(W0.monitor, decision_data)), decision_data)
  IN UpdateMonitor(Enter(W, "learn"),
                   DecisionData(evaluation.complexity_score, request.urgency,
                                plan_result.confidence, "absent", 0, FALSE, TRUE,
                                W.orientation.vsp_level, state.mental_health.status, "cycle"))

\* LEARN, up to the point where it raises (if it does)
_learn(W, request, state, evaluation, plan_result, action_result, fail) ==
  LET Raised(Wr) == [W |-> Wr, raised |-> TRUE, recommendations |-> << >>]
      Recommend(W3) ==
        IF fail = "learn_3" THEN Raised(W3)
        ELSE [W |-> W3, raised |-> FALSE,
              recommendations |-> _generate_learning_recommendations(W3, state, plan_result)]
      UpdateTracker(W2) ==
        IF fail = "learn_2" THEN Raised(W2) ELSE Recommend(UpdateMentalHealthFromMonitor(W2))
      UpdateMonitor(W1, decision_data) ==
        IF fail = "learn_1" THEN Raised(W1)
        ELSE IF fail = "learn_monitor"
        THEN Raised(MonitorWrites(W1, UpdateFromDecisionRaising(W1.monitor, decision_data)))
        ELSE UpdateTracker(MonitorWrites(W1, update_from_decision(W1.monitor, decision_data)))
      Record(W0, decision_data) ==
        IF fail = "learn_0" THEN Raised(W0)
        ELSE UpdateMonitor(TrackerWrites(W0, record_decision(W0.tracker, decision_data)), decision_data)
  IN Record(Enter(W, "learn"),
            DecisionData(evaluation.complexity_score, request.urgency,
                         plan_result.confidence, "absent", 0, FALSE, TRUE,
                         W.orientation.vsp_level, state.mental_health.status, "cycle"))

NoTrace == [id |-> <<0, "none">>]

_create_fallback_response(W, fail) ==
  [kind |-> "fallback",
   plan_id |-> <<W.orientation.cycle_count, "uuid4">>,
   confidence |-> PctToMicro(10),
   mental_health_status |-> W.monitor.metrics.status,
   maturity_level |-> W.tracker.profile.level,
   trace_id |-> <<W.orientation.cycle_count, "uuid4-trace">>,
   warnings |-> << [text |-> "SEPA cycle failed", arg |-> fail] >>,
   recommendations |-> <<"Use simpler approach", "Request human assistance">>]

\* process_request: the five phases in order inside one try block.  A phase
\* that raises has written its line to the debug log before it does.
process_request(W, request, fail) ==
  LET Failed(Wf, trace_written) ==
        [W |-> Wf, trace |-> trace_written, response |-> _create_fallback_response(Wf, fail)]
      Respond(plan_result, learned) ==
        IF learned.raised THEN Failed(learned.W, plan_result.trace)
        ELSE [W |-> learned.W, trace |-> plan_result.trace,
              response |-> [kind |-> "cycle",
                            plan_id |-> plan_result.selected_plan.id,
                            confidence |-> plan_result.confidence,
                            mental_health_status |-> learned.W.monitor.metrics.status,
                            maturity_level |-> learned.W.tracker.profile.level,
                            trace_id |-> plan_result.trace_id,
                            warnings |-> plan_result.warnings,
                            recommendations |-> learned.recommendations]]
      Learn(state, evaluation, plan_result, acted) ==
        Respond(plan_result, _learn(acted.W, request, state, evaluation, plan_result, acted, fail))
      Act(state, evaluation, plan_result) ==
        IF fail = "act" THEN Failed(Enter(plan_result.W, "act"), plan_result.trace)
        ELSE Learn(state, evaluation, plan_result, _act(plan_result.W, plan_result))
      Plan(state, evaluated) ==
        IF fail = "plan" THEN Failed(Enter(evaluated.W, "plan"), NoTrace)
        ELSE Act(state, evaluated.evaluation, _plan(evaluated.W, request, state, evaluated.evaluation))
      Evaluate(sensed) ==
        IF fail = "evaluate" THEN Failed(Enter(sensed.W, "evaluate"), NoTrace)
        ELSE Plan(sensed.state, _evaluate(sensed.W, request, sensed.state))
      Sense(W0) ==
        IF fail = "sense" THEN Failed(Enter(W0, "sense"), NoTrace) ELSE Evaluate(_sense(W0, request))
  IN Sense([W EXCEPT !.orientation.cycle_count = @ + 1, !.orientation.phases = << >>])

\* ------------------------------------------------------------------------
\* decision.py: DecisionEngine.  engine is the record
\*   [total_requests, successful_decisions, failed_decisions, total_decisions,
\*    average_confidence]   (performance_metrics and total_decisions)
\* ------------------------------------------------------------------------

\* pydantic's validate_levels on DecisionRequest
RequestIsValid(request) ==
  /\ 0 <= request.urgency /\ request.urgency <= 100
  /\ 0 <= request.complexity /\ request.complexity <= 100

\* a validation that looks at the ceilings of the level only
ValidateLimitsOnly(W, request) ==
  LET level == W.tracker.profile.level
  IN   (IF ~can_handle_complexity(W.tracker, request.complexity)
        THEN << [text |-> "Complexity exceeds maturity level", arg |-> level] >> ELSE << >>)
    \o (IF ~can_handle_urgency(W.tracker, request.urgency)
        THEN << [text |-> "Urgency exceeds maturity level", arg |-> level] >> ELSE << >>)

_validate_request(W, request) ==
  LET level == W.tracker.profile.level
      mental_health == W.monitor.metrics
  IN   (IF ~can_handle_complexity(W.tracker, request.complexity)
        THEN << [text |-> "Complexity exceeds maturity level", arg |-> level] >> ELSE << >>)
    \o (IF ~can_handle_urgency(W.tracker, request.urgency)
        THEN << [text |-> "Urgency exceeds maturity level", arg |-> level] >> ELSE << >>)
    \o (IF mental_health.status = "overwhelmed"
        THEN << [text |-> "Mental health status is overwhelmed", arg |-> ""] >> ELSE << >>)
    \o (IF mental_health.recursive_loop_count >= 3
        THEN << [text |-> "Too many recursive loops detected", arg |-> ""] >> ELSE << >>)

ZeroConfidenceResponse(W, kind, warnings, recommendations) ==
  [kind |-> kind,
   plan_id |-> <<W.orientation.cycle_count, "uuid4">>,
   confidence |-> 0,
   mental_health_status |-> W.monitor.metrics.status,
   maturity_level |-> W.tracker.profile.level,
   trace_id |-> <<W.orientation.cycle_count, "uuid4-trace">>,
   warnings |-> warnings,
   recommendations |-> recommendations]

_create_constraint_violation_response(W, reasons) ==
  ZeroConfidenceResponse(W, "constraint_violation", reasons,
    <<"Reduce complexity or urgency", "Wait for mental health to stabilize", "Request human assistance">>)

_create_mental_health_intervention_response(W) ==
  ZeroConfidenceResponse(W, "intervention",
    << [text |-> "Mental health intervention required", arg |-> ""] >>,
    get_intervention_recommendations(W.monitor))

_create_error_response(W, error) ==
  ZeroConfidenceResponse(W, "error", << [text |-> "Decision engine error", arg |-> error] >>,
    <<"Retry with simpler request", "Check system status", "Request human assistance">>)

\* decide: the graph, the counters, the trace of the cycle (if one ran) and
\* the value returned to the caller
\* an except clause that counts the failure and raises again
Reraise(W, E0, error) ==
  [W |-> W, E |-> [E0 EXCEPT !.failed_decisions = @ + 1], trace |-> NoTrace,
   response |-> [ZeroConfidenceResponse(W, "raised", << >>, << >>) EXCEPT !.confidence = -1]]

\* the except clause of decide
HandleException(W, E0, error) ==
  [W |-> W, E |-> [E0 EXCEPT !.failed_decisions = @ + 1], trace |-> NoTrace,
   response |-> _create_error_response(W, error)]

\* a rejection that first notes the refused request in the monitor's history
RejectRequestNoted(W, E0, reasons) ==
  [W |-> [W EXCEPT !.monitor.decision_history =
                     DequeAppend(@, DecisionData(0, 0, 0, "no", 0, FALSE, TRUE, 0, W.monitor.metrics.status, "rejected"),
                                 DecisionHistoryMaxlen)],
   E |-> E0, trace |-> NoTrace, response |-> _create_constraint_violation_response(W, reasons)]

\* decide when _validate_request finds the request not valid
RejectRequest(W, E0, reasons) ==
  [W |-> W, E |-> E0, trace |-> NoTrace, response |-> _create_constraint_violation_response(W, reasons)]

\* the running mean of the confidences, in 1e-6 units rounded down; the
\* divisor is total_requests, which counts the rejected requests too
_update_performance_metrics(E0, r) ==
  [E0 EXCEPT !.average_confidence = (@ * (E0.total_requests - 1) + r.confidence) \div E0.total_requests]

decide(W, E, request, fail, t) ==
  LET Rejected(E1, rejection) == [W |-> W, E |-> E1, trace |-> NoTrace, response |-> rejection]
      Decided(E0, cycle) ==
        [W |-> cycle.W,
         E |-> [_update_performance_metrics(E0, cycle.response)
                  EXCEPT !.total_decisions = @ + 1, !.successful_decisions = @ + 1],
         trace |-> cycle.trace,
         response |-> cycle.response]
      Validated(E0, reasons) ==
        IF reasons # << >> THEN RejectRequest(W, E0, reasons)
        ELSE IF should_intervene(W.monitor, t)
        THEN Rejected(E0, _create_mental_health_intervention_response(W))
        ELSE Decided(E0, process_request(W, request, fail))
      Counted(E0) ==
        IF ~RequestIsValid(request) THEN HandleException(W, E0, "ValidationError")
        ELSE Validated(E0, _validate_request(W, request))
  IN Counted([E EXCEPT !.total_requests = @ + 1])

\* _progress_to_level on any level named by the caller; an unknown name is
\* logged and ignored
force_maturity_progression(W, new_level) ==
  IF new_level \in Levels
  THEN TrackerWrites(W, _progress_to_level(W.tracker, new_level))
  ELSE W

\* ------------------------------------------------------------------------
\* UtilityEngine. The repository holds two: sam/core/utility.py and the
\* enhanced engine of src/sam/core/utility.py, which adds the novelty, rigor
\* and safety weights, the personality matrix and the context tilts. The
\* component calculations are the same in both. Estimates and traits are in
\* hundredths, weights in 1e-6, the components G, Q, R, S in 1e-3 and
\* utility in 1e-9.
\* ------------------------------------------------------------------------
Milli == 1000

GoalTypes == {"answer", "retrieve", "tool", "plan", "create", "analyze"}

Step(type, mentions_data) == [type |-> type, mentions_data |-> mentions_data]

ActionPlan(goal_type, steps, quality, risk, spend, policies) ==
  [goal |-> [type |-> goal_type], steps |-> steps,
   estimates |-> [quality |-> quality, risk |-> risk, spend |-> spend], policies |-> policies]

\* sum(1 for step in plan.steps if step.get("type") == type)
StepsOfType(plan, type) == Cardinality({i \in DOMAIN plan.steps : plan.steps[i].type = type})

RECURSIVE SumOver(_, _)
SumOver(f, keys) ==
  IF keys = {} THEN 0
  ELSE LET k == CHOOSE x \in keys : TRUE IN f[k] + SumOver(f, keys \ {k})

maturity_weights ==
  [infant |-> [goal |-> 400000, quality |-> 300000, risk |-> 200000, spend |-> 100000],
   child |-> [goal |-> 350000, quality |-> 300000, risk |-> 200000, spend |-> 150000],
   adolescent |-> [goal |-> 300000, quality |-> 300000, risk |-> 200000, spend |-> 200000],
   adult |-> [goal |-> 250000, quality |-> 300000, risk |-> 200000, spend |-> 250000]]

Enhanced_maturity_weights ==
  [infant |-> [goal |-> 400000, quality |-> 300000, risk |-> 200000, spend |-> 100000,
               novelty |-> 100000, rigor |-> 800000, safety |-> 900000],
   child |-> [goal |-> 350000, quality |-> 300000, risk |-> 200000, spend |-> 150000,
              novelty |-> 200000, rigor |-> 700000, safety |-> 800000],
   adolescent |-> [goal |-> 300000, quality |-> 300000, risk |-> 200000, spend |-> 200000,
                   novelty |-> 400000, rigor |-> 600000, safety |-> 700000],
   adult |-> [goal |-> 250000, quality |-> 300000, risk |-> 200000, spend |-> 250000,
              novelty |-> 600000, rigor |-> 500000, safety |-> 600000]]

\* the weights of the heuristics, in hundredths
quality_heuristics ==
  [answer |-> [accuracy_weight |-> 40, completeness_weight |-> 30, relevance_weight |-> 20,
               clarity_weight |-> 10],
   retrieve |-> [precision_weight |-> 40, recall_weight |-> 30, freshness_weight |-> 20,
                 accessibility_weight |-> 10],
   create |-> [creativity_weight |-> 30, usefulness_weight |-> 30, completeness_weight |-> 20,
               originality_weight |-> 20],
   analyze |-> [depth_weight |-> 40, accuracy_weight |-> 30, insight_weight |-> 20,
                actionability_weight |-> 10],
   plan |-> [feasibility_weight |-> 30, completeness_weight |-> 30, efficiency_weight |-> 20,
             robustness_weight |-> 20],
   tool |-> [effectiveness_weight |-> 40, efficiency_weight |-> 30, reliability_weight |-> 20,
             safety_weight |-> 10]]

\* UtilityEngine(): the two tables are attributes of the instance
NewUtilityEngine(weights) == [maturity_weights |-> weights, quality_heuristics |-> quality_heuristics]

NewUtilityEngines ==
  [basic |-> NewUtilityEngine(maturity_weights), enhanced |-> NewUtilityEngine(Enhanced_maturity_weights)]

\* weight *= factor, the factor in hundredths
Scale(w, factor) == (w * factor) \div 100

\* the multiplications made under one trait or context test
Tilt(weights, applies, factors) ==
  IF applies
  THEN [k \in DOMAIN weights |-> IF k \in DOMAIN factors THEN Scale(weights[k], factors[k]) ELSE weights[k]]
  ELSE weights

\* weight / total_weight in 1e-6, rounded down
Normalized(w, total_weight) ==
  ((w * Milli) \div total_weight) * Milli + (((w * Milli) % total_weight) * Milli) \div total_weight

NoPersonality == [tone |-> "none"]

PersonalityInfluence(tone, assertiveness, patience, creativity, analytical, social) ==
  [tone |-> tone, assertiveness |-> assertiveness, patience |-> patience, creativity |-> creativity,
   analytical |-> analytical, social |-> social]

_adjust_weights_for_personality(weights, personality) ==
  LET Divide(adjusted_weights, total_weight) ==
        [k \in DOMAIN adjusted_weights |-> Normalized(adjusted_weights[k], total_weight)]
      Total(adjusted_weights) == Divide(adjusted_weights, SumOver(adjusted_weights, DOMAIN adjusted_weights))
  IN Total(Tilt(Tilt(Tilt(Tilt(Tilt(weights,
       personality.analytical > 70, [quality |-> 120, risk |-> 110, goal |-> 90]),
       personality.creativity > 70, [goal |-> 110, quality |-> 110, spend |-> 90]),
       personality.social > 70, [goal |-> 105, spend |-> 95]),
       personality.assertiveness > 70, [risk |-> 90, goal |-> 105]),
       personality.patience > 70, [quality |-> 110, spend |-> 90]))

\* the enhanced engine bounds each weight instead of dividing by the total
Enhanced_adjust_weights_for_personality(weights, personality) ==
  LET Bound(adjusted_weights) ==
        [k \in DOMAIN adjusted_weights |-> Max(0, Min(Micro, adjusted_weights[k]))]
  IN Bound(Tilt(Tilt(Tilt(Tilt(Tilt(weights,
       personality.analytical > 70, [quality |-> 120, rigor |-> 130, goal |-> 90, novelty |-> 80]),
       personality.creativity > 70,
         [goal |-> 110, novelty |-> 140, quality |-> 110, spend |-> 90, rigor |-> 80]),
       personality.social > 70, [goal |-> 105, spend |-> 95, safety |-> 110]),
       personality.assertiveness > 70, [risk |-> 80, goal |-> 105, safety |-> 90]),
       personality.patience > 70, [quality |-> 110, rigor |-> 120, spend |-> 90, novelty |-> 90]))

_adjust_weights_for_context(weights, context) ==
  Tilt(Tilt(Tilt(Tilt(weights,
    "high_stakes" \in context, [safety |-> 130, quality |-> 120, risk |-> 70]),
    "time_sensitive" \in context, [spend |-> 120, rigor |-> 80]),
    "requires_creativity" \in context, [novelty |-> 130, goal |-> 110]),
    "requires_analysis" \in context, [rigor |-> 130, quality |-> 120])

\* _get_weights works on a copy of the level's row: the engine it leaves
\* behind is the engine it found
_get_weights(U, maturity_level, personality_influence) ==
  LET base_weights == U.maturity_weights[maturity_level] IN
  [weights |-> IF personality_influence # NoPersonality
               THEN _adjust_weights_for_personality(base_weights, personality_influence)
               ELSE base_weights,
   engine |-> U]

NoMatrix == [name |-> "none"]

\* (base_weights[key] + value) / 2 for the keys the matrix resolves
MergeMatrix(base_weights, pmx_weights) ==
  [k \in DOMAIN base_weights |->
     IF k \in DOMAIN pmx_weights THEN (base_weights[k] + pmx_weights[k]) \div 2 ELSE base_weights[k]]

\* a _get_weights that merges the matrix into the level's row itself
GetWeightsInPlace(U, maturity_level, personality_influence, pmx, context) ==
  LET Contextual(w) == IF context # {} THEN _adjust_weights_for_context(w, context) ELSE w
      Personal(w) ==
        Contextual(IF personality_influence # NoPersonality
                   THEN Enhanced_adjust_weights_for_personality(w, personality_influence)
                   ELSE w)
      Merged(w) == [weights |-> Personal(w), engine |-> [U EXCEPT !.maturity_weights[maturity_level] = w]]
  IN Merged(IF pmx # NoMatrix
            THEN MergeMatrix(U.maturity_weights[maturity_level], pmx.weights)
            ELSE U.maturity_weights[maturity_level])

Enhanced_get_weights(U, maturity_level, personality_influence, pmx, context) ==
  LET Contextual(w) == IF context # {} THEN _adjust_weights_for_context(w, context) ELSE w
      Personal(w) ==
        Contextual(IF personality_influence # NoPersonality
                   THEN Enhanced_adjust_weights_for_personality(w, personality_influence)
                   ELSE w)
      Merged(w) == [weights |-> Personal(w), engine |-> U]
  IN Merged(IF pmx # NoMatrix
            THEN MergeMatrix(U.maturity_weights[maturity_level], pmx.weights)
            ELSE U.maturity_weights[maturity_level])

UtilityEngine_calculate_goal_satisfaction(plan, context) ==
  LET goal_type == plan.goal.type
      quality == plan.estimates.quality
      by_type ==
        CASE goal_type = "answer" ->
               (IF Len(plan.steps) >= 3 THEN 200 ELSE 0) + (IF quality > 70 THEN 100 ELSE 0)
          [] goal_type = "retrieve" ->
               (IF StepsOfType(plan, "tool") >= 2 THEN 150 ELSE 0) + (IF quality > 60 THEN 100 ELSE 0)
          [] goal_type = "create" ->
               (IF StepsOfType(plan, "llm") >= 2 THEN 200 ELSE 0) + (IF quality > 60 THEN 100 ELSE 0)
          [] goal_type = "analyze" ->
               (IF Len(plan.steps) >= 4 THEN 200 ELSE 0) + (IF quality > 70 THEN 150 ELSE 0)
          [] goal_type = "plan" ->
               (IF Len(plan.steps) >= 3 THEN 150 ELSE 0) + (IF quality > 60 THEN 100 ELSE 0)
          [] OTHER -> 0
      by_context ==
        (IF "requires_external_data" \in context /\ StepsOfType(plan, "tool") > 0 THEN 100 ELSE 0)
        + (IF "time_sensitive" \in context /\ plan.estimates.spend < 80 THEN 100 ELSE 0)
  IN Min(Milli, 500 + by_type + by_context)

\* the scores of the _assess_* methods called for the goal type, in 1e-3
quality_factors(plan) ==
  LET goal_type == plan.goal.type
      steps == Len(plan.steps)
      completeness == Min(Milli, 400 + 100 * steps)
      efficiency == Max(0, Milli - plan.estimates.spend * 10)
  IN CASE goal_type = "answer" ->
            [accuracy |-> Min(Milli, 500 + 100 * StepsOfType(plan, "llm")),
             completeness |-> completeness, relevance |-> 700,
             clarity |-> IF steps <= 5 THEN 800 ELSE 600]
       [] goal_type = "retrieve" ->
            [precision |-> Min(Milli, 500 + 100 * StepsOfType(plan, "tool")),
             recall |-> 700, freshness |-> 600, accessibility |-> 800]
       [] goal_type = "create" ->
            [creativity |-> Min(Milli, 400 + 150 * StepsOfType(plan, "llm")),
             usefulness |-> 700, completeness |-> completeness, originality |-> 600]
       [] goal_type = "analyze" ->
            [depth |-> Min(Milli, 400 + 150 * StepsOfType(plan, "llm")),
             accuracy |-> 700, insight |-> 600, actionability |-> 700]
       [] goal_type = "plan" ->
            [feasibility |-> IF steps <= 4 THEN 800 ELSE 600, completeness |-> completeness,
             efficiency |-> efficiency, robustness |-> Min(Milli, 500 + 100 * steps)]
       [] OTHER ->
            [effectiveness |-> 700, efficiency |-> efficiency, reliability |-> 700,
             safety |-> Max(0, Milli - plan.estimates.risk * 10)]

\* the loop adds weight * quality_factors[factor] for the keys of the
\* heuristics that are keys of quality_factors; the heuristics are keyed
\* "accuracy_weight", the factors "accuracy"
_calculate_quality(U, plan, context) ==
  LET heuristics == IF plan.goal.type \in DOMAIN U.quality_heuristics
                    THEN U.quality_heuristics[plan.goal.type]
                    ELSE U.quality_heuristics["tool"]
      base_quality == plan.estimates.quality * 10
      factors == quality_factors(plan)
      matching == DOMAIN heuristics \cap DOMAIN factors
      weighted_quality == SumOver([k \in matching |-> heuristics[k] * factors[k]], matching) \div 100
  IN Min(Milli, (7 * base_quality + 3 * weighted_quality) \div 10)

_calculate_risk(plan, context) ==
  LET external_tools == StepsOfType(plan, "tool")
      risk_factors ==
        100 * external_tools
        + (IF Len(plan.steps) > 5 THEN 100 ELSE 0)
        + (IF plan.estimates.spend > 80 THEN 100 ELSE 0)
        + (IF "no_pii_exfil" \in plan.policies
              /\ \E i \in DOMAIN plan.steps : plan.steps[i].mentions_data
           THEN 200 ELSE 0)
        + (IF "sensitive_data" \in context THEN 200 ELSE 0)
        + (IF "high_stakes" \in context THEN 150 ELSE 0)
  IN Min(Milli, plan.estimates.risk * 10 + risk_factors)

_calculate_spend(plan, context) ==
  LET spend_factors ==
        Min(200, Len(plan.steps) * 50)
        + 100 * StepsOfType(plan, "tool")
        + (IF plan.estimates.quality > 80 THEN 100 ELSE 0)
  IN Min(Milli, plan.estimates.spend * 10 + spend_factors)

_generate_utility_explanation(G, Q, R, S, utility) ==
  [overall |-> IF utility > 700 * Micro THEN "high utility"
               ELSE IF utility > 400 * Micro THEN "moderate utility" ELSE "low utility",
   explanations |->
     (IF G > 700 THEN <<"high goal satisfaction">> ELSE IF G < 400 THEN <<"low goal satisfaction">> ELSE << >>)
     \o (IF Q > 700 THEN <<"high quality">> ELSE IF Q < 400 THEN <<"low quality">> ELSE << >>)
     \o (IF R > 600 THEN <<"high risk">> ELSE IF R < 300 THEN <<"low risk">> ELSE << >>)
     \o (IF S > 700 THEN <<"high resource cost">> ELSE IF S < 300 THEN <<"low resource cost">> ELSE << >>)]

\* max(0.0, min(1.0, utility))
Bounded(utility) == Max(0, Min(Nano, utility))

\* the result dictionary, and the engine after the call
calculate_utility(U, plan, maturity_level, personality_influence, context) ==
  LET Result(got, G, Q, R, S, utility) ==
        [result |-> [utility |-> utility,
                     components |-> [goal_satisfaction |-> G, quality |-> Q, risk |-> R, spend |-> S],
                     weights |-> got.weights,
                     explanation |-> _generate_utility_explanation(G, Q, R, S, utility)],
         engine |-> got.engine]
      Combine(got, G, Q, R, S) ==
        Result(got, G, Q, R, S,
               Bounded(got.weights.goal * G + got.weights.quality * Q
                         - got.weights.risk * R - got.weights.spend * S))
  IN Combine(_get_weights(U, maturity_level, personality_influence),
             UtilityEngine_calculate_goal_satisfaction(plan, context),
             _calculate_quality(U, plan, context),
             _calculate_risk(plan, context),
             _calculate_spend(plan, context))

Enhanced_calculate_utility(U, plan, maturity_level, personality_influence, pmx, context) ==
  LET Result(got, G, Q, R, S, utility) ==
        [result |-> [utility |-> utility,
                     components |-> [goal_satisfaction |-> G, quality |-> Q, risk |-> R, spend |-> S],
                     weights |-> got.weights,
                     factor_breakdown |->
                       [goal_satisfaction |-> got.weights.goal * G, quality |-> got.weights.quality * Q,
                        risk |-> -(got.weights.risk * R), spend |-> -(got.weights.spend * S),
                        personality_factors |->
                          [novelty |-> got.weights.novelty, rigor |-> got.weights.rigor,
                           safety |-> got.weights.safety]],
                     explanation |-> _generate_utility_explanation(G, Q, R, S, utility)],
         engine |-> got.engine]
      Combine(got, G, Q, R, S) ==
        Result(got, G, Q, R, S,
               Bounded(got.weights.goal * G + got.weights.quality * Q
                         - got.weights.risk * R - got.weights.spend * S))
  IN Combine(Enhanced_get_weights(U, maturity_level, personality_influence, pmx, context),
             UtilityEngine_calculate_goal_satisfaction(plan, context),
             _calculate_quality(U, plan, context),
             _calculate_risk(plan, context),
             _calculate_spend(plan, context))

\* ------------------------------------------------------------------------
\* State
\* ------------------------------------------------------------------------
VARIABLES tracker, monitor, aliased, orientation, engine, utility_engine, second, calls, now, response, trace, lastOp

vars == <<tracker, monitor, aliased, orientation, engine, utility_engine, second, calls, now, response, trace, lastOp>>

World == [tracker |-> tracker, monitor |-> monitor, aliased |-> aliased, orientation |-> orientation]

\* an operation starts with an empty log of level changes
Begin == [World EXCEPT !.tracker.progressions = << >>]

\* ------------------------------------------------------------------------
\* Bounds and input sets
\* ------------------------------------------------------------------------
MaxOps == 4
MaxRequests == 2
MaxFaults == 1
MaxEvents == 1
MaxForced == 1

\* constraints: the dictionary as a set of <<key, value>> pairs
Request(goal, context, urgency, complexity) ==
  [goal |-> goal, context |-> context, constraints |-> {}, urgency |-> urgency, complexity |-> complexity]

NoRequest == Request({}, {}, 0, 0)

\* "answer a simple question" (0.3, 0.2); "analyze trends" (0.7, 0.8); an
\* urgent, complex request with demanding context (0.9, 0.9); a request whose
\* urgency is outside [0, 1]
Requests ==
  { Request({"answer"}, {}, 30, 20),
    Request({"analyze"}, {}, 70, 80),
    Request({"create", "plan"}, {"requires_multiple_steps", "time_sensitive"}, 90, 90),
    Request({"answer"}, {}, 150, 20) }

Pattern(type, repetition_count, similarity_score, inputs, outputs) ==
  [type |-> type, repetition_count |-> repetition_count, similarity_score |-> similarity_score,
   inputs |-> inputs, outputs |-> outputs]

RecursivePattern == Pattern("recursive", 4, 90, {}, {})

Patterns == { RecursivePattern }

EmotionalEvents == { <<"failure", 80>> }

ConstructorLevels == {"infant", "adult"}

\* the lowest level, the highest, and a name that is no level
ForcedLevels == {"infant", "adult", "elder"}

\* ------------------------------------------------------------------------
\* Construction: DecisionEngine(maturity_level), no stored files
\* ------------------------------------------------------------------------
NewTracker(profile, stored) ==
  [profile |-> profile, mental_health |-> DefaultMetrics, decision_history |-> << >>,
   learning_events |-> << >>, stored_profile |-> stored, stored_mental_health |-> << >>,
   progressions |-> << >>]

NewMonitor ==
  [metrics |-> DefaultMetrics, decision_history |-> << >>, thought_patterns |-> << >>,
   emotional_events |-> << >>, last_intervention |-> -1,
   personality_influence |-> [tone |-> "none"]]

\* phases and planned are kept for the properties: the phases the latest
\* cycle entered, and the candidate_plans and fallback_plans of the
\* plan_result of the latest Plan phase
NewOrientation ==
  [vsp_level |-> 0, current_mode |-> "flow", cycle_count |-> 0, phases |-> << >>,
   planned |-> [candidate_plans |-> << >>, fallback_plans |-> << >>]]

\* the place of a second DecisionEngine of the process, before it is constructed
NoEngine == [constructed |-> FALSE]

NewEngine ==
  [total_requests |-> 0, successful_decisions |-> 0, failed_decisions |-> 0, total_decisions |-> 0,
   average_confidence |-> 0, is_initialized |-> TRUE]

NoResponse ==
  [kind |-> "none", plan_id |-> <<0, "none">>, confidence |-> 0, mental_health_status |-> "stable",
   maturity_level |-> "infant", trace_id |-> <<0, "none">>, warnings |-> << >>, recommendations |-> << >>]

\* the operation a step performed, with its inputs; n counts the operations
\* and faults the cycles in which an exception surfaced
Op(name, request, fail, arg) ==
  [name |-> name, request |-> request, fail |-> fail, arg |-> arg, n |-> lastOp.n + 1,
   faults |-> lastOp.faults + (IF fail = "none" THEN 0 ELSE 1)]

\* _set_maturity_level, called by the constructor when the level differs
_set_maturity_level(T, level) ==
  IF level \in Levels THEN [T EXCEPT !.profile = WithLevelConfig(@, level)] ELSE T

NewDecisionEngine(maturity_level) ==
  IF maturity_level # DefaultProfile.level
  THEN _set_maturity_level(NewTracker(DefaultProfile, << >>), maturity_level)
  ELSE NewTracker(DefaultProfile, << >>)

Init ==
  /\ \E maturity_level \in ConstructorLevels : tracker = NewDecisionEngine(maturity_level)
  /\ monitor = NewMonitor
  /\ aliased = FALSE
  /\ orientation = NewOrientation
  /\ engine = NewEngine
  /\ utility_engine = NewUtilityEngines
  /\ second = NoEngine
  /\ calls = << >>
  /\ now = 0
  /\ response = NoResponse
  /\ trace = NoTrace
  /\ lastOp = [name |-> "init", request |-> NoRequest, fail |-> "none", arg |-> "", n |-> 0, faults |-> 0]

\* ------------------------------------------------------------------------
\* Operations of the engine
\* ------------------------------------------------------------------------
Commit(W) ==
  /\ tracker' = W.tracker
  /\ monitor' = W.monitor
  /\ aliased' = W.aliased
  /\ orientation' = W.orientation

\* whether decide hands the request to the orientation cycle
RunsCycle(W, request, t) ==
  /\ RequestIsValid(request)
  /\ _validate_request(W, request) = << >>
  /\ ~should_intervene(W.monitor, t)

Forced(T) == Cardinality({i \in DOMAIN T.learning_events : T.learning_events[i].type = "maturity_progression"})

\* the graph after decide, and what it returned
Returns(r) ==
  /\ Commit(r.W)
  /\ engine' = r.E
  /\ response' = r.response
  /\ trace' = r.trace

Decide ==
  /\ lastOp.n < MaxOps
  /\ engine.total_requests < MaxRequests
  /\ \E request \in Requests, fail \in FailPoints :
       /\ fail # "none" => lastOp.faults < MaxFaults /\ RunsCycle(Begin, request, now)
       /\ Returns(decide(Begin, engine, request, fail, now))
       /\ lastOp' = Op("decide", request, fail, "")
  /\ UNCHANGED <<now, utility_engine, second, calls>>

RecordThoughtPattern ==
  /\ lastOp.n < MaxOps
  /\ \E pattern \in Patterns :
       /\ Commit(MonitorWrites(Begin, update_from_thought_pattern(Begin.monitor, pattern)))
       /\ lastOp' = Op("record_thought_pattern", NoRequest, "none", pattern.type)
  /\ UNCHANGED <<engine, utility_engine, second, calls, now, response, trace>>

RecordEmotionalEvent ==
  /\ lastOp.n < MaxOps
  /\ Len(monitor.emotional_events) < MaxEvents
  /\ \E e \in EmotionalEvents :
       /\ Commit(MonitorWrites(Begin, record_emotional_event(Begin.monitor, e[1], e[2])))
       /\ lastOp' = Op("record_emotional_event", NoRequest, "none", e[1])
  /\ UNCHANGED <<engine, utility_engine, second, calls, now, response, trace>>

ResetMentalHealth ==
  /\ lastOp.n < MaxOps
  /\ Commit(ResetMonitorMetrics(Begin, now))
  /\ lastOp' = Op("reset_mental_health", NoRequest, "none", "")
  /\ UNCHANGED <<engine, utility_engine, second, calls, now, response, trace>>

ForceMaturityProgression ==
  /\ lastOp.n < MaxOps
  /\ Forced(tracker) < MaxForced
  /\ \E new_level \in ForcedLevels :
       /\ Commit(force_maturity_progression(Begin, new_level))
       /\ lastOp' = Op("force_maturity_progression", NoRequest, "none", new_level)
  /\ UNCHANGED <<engine, utility_engine, second, calls, now, response, trace>>

\* the clock: datetime.utcnow() moves on between operations, here by the
\* length of the cooldown, which is all should_intervene can tell apart
Tick ==
  /\ now < InterventionCooldown
  /\ now' = now + InterventionCooldown
  /\ UNCHANGED <<tracker, monitor, aliased, orientation, engine, utility_engine, second, calls, response, trace, lastOp>>

Next ==
  \/ Decide
  \/ RecordThoughtPattern
  \/ RecordEmotionalEvent
  \/ ResetMentalHealth
  \/ ForceMaturityProgression
  \/ Tick

Spec == Init /\ [][Next]_vars

\* ------------------------------------------------------------------------
\* The tracker on its own: a MaturityTracker whose data_path holds a profile
\* saved earlier, driven through its public methods.  The monitor, the
\* orientation and the counters of the engine stay as constructed.
\* ------------------------------------------------------------------------
Warmup == 28
MaxDecisions == 31
MaxPoor == 1
MaxLearningEvents == 2
MaxUpdates == 1

\* profile.json as _save_profile writes it: an infant six months old and one
\* a year and a half old, each a few points short of a level, a child six
\* months old, and an infant of age 0
StoredProfiles ==
  { [DefaultProfile EXCEPT !.age_months = 6, !.experience_points = 598],
    [DefaultProfile EXCEPT !.age_months = 18, !.experience_points = 1798],
    [WithLevelConfig(DefaultProfile, "child") EXCEPT !.age_months = 6, !.experience_points = 598],
    [DefaultProfile EXCEPT !.experience_points = 598] }

\* _load_profile when data_path exists
_load_profile(stored) == stored

GoodDecision == DecisionData(50, 50, PctToMicro(90), "yes", 90, FALSE, FALSE, 0, "stable", "caller")
PoorDecision == DecisionData(50, 50, PctToMicro(40), "no", 50, FALSE, FALSE, 0, "stable", "caller")

LearningEventInputs ==
  { <<"successful_decision", [quality |-> 10, complexity |-> -1]>>,
    <<"recursive_loop_detected", NoOutcome>> }

\* metrics a caller hands to update_mental_health
MetricsInputs ==
  { DefaultMetrics,
    [DefaultMetrics EXCEPT !.recursive_loop_count = 2],
    [DefaultMetrics EXCEPT !.recursive_loop_count = 1, !.addictive_behavior_score = PctToNano(90)],
    [DefaultMetrics EXCEPT !.status = "overwhelmed", !.stress_level = PctToNano(75),
                           !.burnout_risk = PctToNano(85)] }

\* the tracker after Warmup calls of record_decision with a good decision:
\* with fewer than RequiredGood decisions recorded the assessment finds the
\* tracker not ready, so each call appends its entry and saves the profile
Recorded(T) ==
  [T EXCEPT !.decision_history =
              [i \in 1..Warmup |-> [data |-> GoodDecision, maturity_level |-> T.profile.level]],
            !.stored_profile = T.profile]

\* a tracker that has recorded Warmup good decisions since it was constructed
TrackerInit ==
  /\ \E stored \in StoredProfiles : tracker = Recorded(NewTracker(_load_profile(stored), stored))
  /\ monitor = NewMonitor
  /\ aliased = FALSE
  /\ orientation = NewOrientation
  /\ engine = NewEngine
  /\ utility_engine = NewUtilityEngines
  /\ second = NoEngine
  /\ calls = << >>
  /\ now = 0
  /\ response = NoResponse
  /\ trace = NoTrace
  /\ lastOp = [name |-> "init", request |-> NoRequest, fail |-> "none", arg |-> "", n |-> 0, faults |-> 0]

\* a call of a tracker method; n counts the update_mental_health calls
TrackerOp(name, arg, updates) ==
  [name |-> name, request |-> NoRequest, fail |-> "none", arg |-> arg, n |-> lastOp.n + updates,
   faults |-> 0]

Poor(T) == Cardinality({i \in DOMAIN T.decision_history : T.decision_history[i].data.success_rate <= GoodRate})

TrackerRecordDecision ==
  /\ Len(tracker.decision_history) < MaxDecisions
  /\ \E d \in {GoodDecision, PoorDecision} :
       /\ d = PoorDecision => Poor(tracker) < MaxPoor
       /\ Commit(TrackerWrites(Begin, record_decision(Begin.tracker, d)))
       /\ lastOp' = TrackerOp("record_decision", d.success, 0)
  /\ UNCHANGED <<engine, utility_engine, second, calls, now, response, trace>>

TrackerRecordLearningEvent ==
  /\ Len(tracker.learning_events) < MaxLearningEvents
  /\ \E e \in LearningEventInputs :
       /\ Commit(TrackerWrites(Begin, record_learning_event(Begin.tracker, e[1], e[2])))
       /\ lastOp' = TrackerOp("record_learning_event", e[1], 0)
  /\ UNCHANGED <<engine, utility_engine, second, calls, now, response, trace>>

\* the metrics object is the caller's: the tracker no longer shares the
\* monitor's
TrackerUpdateMentalHealth ==
  /\ lastOp.n < MaxUpdates
  /\ Len(tracker.learning_events) < MaxLearningEvents
  /\ \E m \in MetricsInputs :
       /\ Commit([Begin EXCEPT !.tracker = update_mental_health(Begin.tracker, m), !.aliased = FALSE])
       /\ lastOp' = TrackerOp("update_mental_health", "", 1)
  /\ UNCHANGED <<engine, utility_engine, second, calls, now, response, trace>>

TrackerForceMaturityProgression ==
  /\ Len(tracker.learning_events) < MaxLearningEvents
  /\ Forced(tracker) < MaxForced
  /\ \E new_level \in ForcedLevels :
       /\ Commit(force_maturity_progression(Begin, new_level))
       /\ lastOp' = TrackerOp("force_maturity_progression", new_level, 0)
  /\ UNCHANGED <<engine, utility_engine, second, calls, now, response, trace>>

TrackerNext ==
  \/ TrackerRecordDecision
  \/ TrackerRecordLearningEvent
  \/ TrackerUpdateMentalHealth
  \/ TrackerForceMaturityProgression

TrackerSpec == TrackerInit /\ [][TrackerNext]_vars

\* ------------------------------------------------------------------------
\* The monitor on its own: a MentalHealthMonitor that has already been fed
\* decisions, thought patterns or emotional events, driven through its public
\* methods, with a MaturityTracker that is handed the monitor's metrics.
\* ------------------------------------------------------------------------
MaxMonitorOps == 3

\* decision dicts a caller hands to update_from_decision: a confident
\* success on an easy task, a failure on a demanding task decided without
\* confidence, and a failure on a demanding task decided with full confidence
ConfidentDecision == DecisionData(20, 10, PctToMicro(90), "yes", 90, FALSE, TRUE, 0, "stable", "confident")
HarshDecision == DecisionData(90, 90, 0, "no", 0, TRUE, TRUE, 0, "stable", "harsh")
DemandingDecision == DecisionData(90, 90, Micro, "no", 0, FALSE, TRUE, 0, "stable", "demanding")

MonitorDecisions == {ConfidentDecision, HarshDecision, DemandingDecision}

ValidationPattern == Pattern("validation_seeking", 3, 50, {}, {})
ImpulsivePattern == Pattern("impulsive", 2, 50, {}, {})

MonitorPatterns == {RecursivePattern, ValidationPattern, ImpulsivePattern}

\* (event_type, intensity): intensity is whatever the caller passes
MonitorEvents == { <<"failure", 100>>, <<"success", 100>>, <<"rejection", 1200>> }

\* the monitor after 23 calls of update_from_decision(ConfidentDecision):
\* each adds 0.09 excitement and the decay takes 0.05 away; the stress the
\* decision adds (0.01) is below the decay
ExcitedMonitor ==
  [NewMonitor EXCEPT !.decision_history = [i \in 1..23 |-> ConfidentDecision],
                     !.metrics.excitement_level = 23 * PctToNano(4),
                     !.metrics.status = "excited"]

\* the monitor after 16 calls of update_from_decision(DemandingDecision):
\* each adds 0.05 burnout risk and, from the fifth on, is found impulsive
OverwhelmedMonitor ==
  [NewMonitor EXCEPT !.decision_history = [i \in 1..16 |-> DemandingDecision],
                     !.metrics.burnout_risk = 16 * PctToNano(5),
                     !.metrics.impulse_control_score = Nano - 12 * PctToNano(5),
                     !.metrics.status = "overwhelmed"]

\* the monitor after 7 calls of update_from_thought_pattern(ValidationPattern)
ValidationSeekingMonitor ==
  [NewMonitor EXCEPT !.thought_patterns = [i \in 1..7 |-> ValidationPattern],
                     !.metrics.addictive_behavior_score = 7 * PctToNano(10)]

\* the monitor after 23 calls of record_emotional_event("failure", 1.0)
ShakenMonitor ==
  [NewMonitor EXCEPT !.emotional_events = [i \in 1..23 |-> [type |-> "failure", intensity |-> 100]],
                     !.metrics.emotional_stability = Nano - 23 * PctToNano(3)]

\* the monitor after 3 calls of update_from_thought_pattern(RecursivePattern):
\* each counts one loop, and the status is not looked at
LoopingMonitor ==
  [NewMonitor EXCEPT !.thought_patterns = [i \in 1..3 |-> RecursivePattern],
                     !.metrics.recursive_loop_count = 3]

\* monitors as earlier calls have left them
WarmMonitors ==
  {NewMonitor, ExcitedMonitor, OverwhelmedMonitor, ValidationSeekingMonitor, ShakenMonitor, LoopingMonitor}

MonitorInit ==
  /\ monitor \in WarmMonitors
  /\ tracker = NewTracker(DefaultProfile, << >>)
  /\ aliased = FALSE
  /\ orientation = NewOrientation
  /\ engine = NewEngine
  /\ utility_engine = NewUtilityEngines
  /\ second = NoEngine
  /\ calls = << >>
  /\ now = 0
  /\ response = NoResponse
  /\ trace = NoTrace
  /\ lastOp = [name |-> "init", request |-> NoRequest, fail |-> "none", arg |-> "", n |-> 0, faults |-> 0]

MonitorUpdateFromDecision ==
  /\ lastOp.n < MaxMonitorOps
  /\ \E d \in MonitorDecisions :
       /\ Commit(MonitorWrites(Begin, update_from_decision(Begin.monitor, d)))
       /\ lastOp' = Op("update_from_decision", NoRequest, "none", d.src)
  /\ UNCHANGED <<engine, utility_engine, second, calls, now, response, trace>>

MonitorUpdateFromThoughtPattern ==
  /\ lastOp.n < MaxMonitorOps
  /\ \E pattern \in MonitorPatterns :
       /\ Commit(MonitorWrites(Begin, update_from_thought_pattern(Begin.monitor, pattern)))
       /\ lastOp' = Op("update_from_thought_pattern", NoRequest, "none", pattern.type)
  /\ UNCHANGED <<engine, utility_engine, second, calls, now, response, trace>>

MonitorRecordEmotionalEvent ==
  /\ lastOp.n < MaxMonitorOps
  /\ \E e \in MonitorEvents :
       /\ Commit(MonitorWrites(Begin, record_emotional_event(Begin.monitor, e[1], e[2])))
       /\ lastOp' = Op("record_emotional_event", NoRequest, "none", e[1])
  /\ UNCHANGED <<engine, utility_engine, second, calls, now, response, trace>>

MonitorResetMetrics ==
  /\ lastOp.n < MaxMonitorOps
  /\ Commit(ResetMonitorMetrics(Begin, now))
  /\ lastOp' = Op("reset_metrics", NoRequest, "none", "")
  /\ UNCHANGED <<engine, utility_engine, second, calls, now, response, trace>>

\* tracker.update_mental_health(monitor.get_current_metrics())
MonitorHandsMetricsToTracker ==
  /\ lastOp.n < MaxMonitorOps
  /\ Commit(UpdateMentalHealthFromMonitor(Begin))
  /\ lastOp' = Op("update_mental_health", NoRequest, "none", "")
  /\ UNCHANGED <<engine, utility_engine, second, calls, now, response, trace>>

\* should_intervene(): arg is the value returned
MonitorShouldIntervene ==
  /\ lastOp.name # "should_intervene"
  /\ lastOp' = [name |-> "should_intervene", request |-> NoRequest, fail |-> "none",
                arg |-> IF should_intervene(monitor, now) THEN "True" ELSE "False",
                n |-> lastOp.n, faults |-> lastOp.faults]
  /\ UNCHANGED <<tracker, monitor, aliased, orientation, engine, utility_engine, second, calls, now, response, trace>>

\* the clock at a later call: a minute short of the cooldown after the
\* start, the cooldown after it, and a minute short of twice the cooldown
ClockReadings == {InterventionCooldown - 1, InterventionCooldown, 2 * InterventionCooldown - 1}

MonitorTick ==
  /\ \E t \in ClockReadings : t > now /\ now' = t
  /\ UNCHANGED <<tracker, monitor, aliased, orientation, engine, utility_engine, second, calls, response, trace, lastOp>>

MonitorNext ==
  \/ MonitorUpdateFromDecision
  \/ MonitorUpdateFromThoughtPattern
  \/ MonitorRecordEmotionalEvent
  \/ MonitorResetMetrics
  \/ MonitorHandsMetricsToTracker
  \/ MonitorShouldIntervene
  \/ MonitorTick

MonitorSpec == MonitorInit /\ [][MonitorNext]_vars

\* ------------------------------------------------------------------------
\* The utility engines on their own: one instance of each and a run of
\* calculate_utility calls
\* ------------------------------------------------------------------------
MaxCalls == 3

\* the steps _create_plan builds: llm and tool in turn
PlanSteps(steps) == [i \in 1..steps |-> Step(IF (i - 1) % 2 = 0 THEN "llm" ELSE "tool", FALSE)]

\* the sample plan of the tests
SamplePlan(goal_type) == ActionPlan(goal_type, <<Step("llm", FALSE)>>, 70, 20, 40, {})

\* the sample plan, the conservative and the aggressive template of the
\* orientation, and a plan of two data-fetching tool steps whose spend
\* estimate is a credit
UtilityPlans ==
  UNION { { SamplePlan(goal_type),
            ActionPlan(goal_type, PlanSteps(3), 80, 20, 60, {"no_pii_exfil"}),
            ActionPlan(goal_type, PlanSteps(7), 60, 60, 100, {"no_pii_exfil"}),
            ActionPlan(goal_type, <<Step("tool", TRUE), Step("tool", TRUE)>>, 100, 0, -500,
                       {"no_pii_exfil"}) } : goal_type \in GoalTypes }

AnalyticalPersonality == PersonalityInfluence("analytical", 50, 50, 30, 90, 40)
DrivenPersonality == PersonalityInfluence("driven", 90, 90, 90, 90, 90)
EvenPersonality == PersonalityInfluence("even", 70, 70, 70, 70, 70)

Personalities == { NoPersonality, AnalyticalPersonality, DrivenPersonality, EvenPersonality }

MockPMX ==
  [name |-> "MockPMX",
   weights |-> [goal |-> 400000, quality |-> 400000, risk |-> 100000, spend |-> 100000,
                novelty |-> 300000, rigor |-> 800000, safety |-> 900000]]

Matrices == { NoMatrix, MockPMX }

UtilityContexts ==
  { {}, {"high_stakes", "sensitive_data"},
    {"time_sensitive", "requires_external_data", "requires_creativity", "requires_analysis"} }

\* every plan on its own, and the sample plan under every personality,
\* matrix and context
UtilityArguments ==
  { [plan |-> plan, personality_influence |-> NoPersonality, pmx |-> NoMatrix, context |-> {}] :
      plan \in UtilityPlans }
  \cup { [plan |-> SamplePlan("answer"), personality_influence |-> personality_influence, pmx |-> pmx,
          context |-> context] :
           personality_influence \in Personalities, pmx \in Matrices, context \in UtilityContexts }

UtilityCall(engine_name, plan, maturity_level, personality_influence, pmx, context) ==
  [name |-> "calculate_utility", fail |-> "none", arg |-> engine_name, n |-> lastOp.n + 1, faults |-> 0,
   request |-> [plan |-> plan, maturity_level |-> maturity_level,
                personality_influence |-> personality_influence, pmx |-> pmx, context |-> context]]

UtilityInit ==
  /\ tracker = NewTracker(DefaultProfile, << >>)
  /\ monitor = NewMonitor
  /\ aliased = FALSE
  /\ orientation = NewOrientation
  /\ engine = NewEngine
  /\ utility_engine = NewUtilityEngines
  /\ second = NoEngine
  /\ calls = << >>
  /\ now = 0
  /\ response = NoResponse
  /\ trace = [merged |-> {}]
  /\ lastOp = [name |-> "init", request |-> NoRequest, fail |-> "none", arg |-> "", n |-> 0, faults |-> 0]

\* trace.merged: the levels for which an earlier call came with a matrix
CalculateUtility ==
  /\ lastOp.n < MaxCalls
  /\ \E a \in {x \in UtilityArguments : x.pmx = NoMatrix}, maturity_level \in Levels :
       LET Returns_(r) ==
             /\ utility_engine' = [utility_engine EXCEPT !.basic = r.engine]
             /\ response' = r.result
       IN /\ Returns_(calculate_utility(utility_engine.basic, a.plan, maturity_level,
                                        a.personality_influence, a.context))
          /\ lastOp' = UtilityCall("basic", a.plan, maturity_level, a.personality_influence, NoMatrix,
                                   a.context)
  /\ UNCHANGED <<tracker, monitor, aliased, orientation, engine, second, calls, now, trace>>

EnhancedCalculateUtility ==
  /\ lastOp.n < MaxCalls
  /\ \E a \in UtilityArguments, maturity_level \in Levels :
       LET Returns_(r) ==
             /\ utility_engine' = [utility_engine EXCEPT !.enhanced = r.engine]
             /\ response' = r.result
       IN /\ Returns_(Enhanced_calculate_utility(utility_engine.enhanced, a.plan, maturity_level,
                                                 a.personality_influence, a.pmx, a.context))
          /\ lastOp' = UtilityCall("enhanced", a.plan, maturity_level, a.personality_influence, a.pmx,
                                   a.context)
          /\ trace' = [merged |-> IF a.pmx # NoMatrix THEN trace.merged \cup {maturity_level}
                                  ELSE trace.merged]
  /\ UNCHANGED <<tracker, monitor, aliased, orientation, engine, second, calls, now>>

UtilityNext ==
  \/ CalculateUtility
  \/ EnhancedCalculateUtility

UtilitySpec == UtilityInit /\ [][UtilityNext]_vars

\* ------------------------------------------------------------------------
\* The engine under the requests of the policy-gate and budget tests:
\* requests that carry a time limit or a budget, decided while the
\* deployment's policy check approves or rejects what is submitted to it
\* ------------------------------------------------------------------------
MaxGatedRequests == 2

ConstraintSets == { {}, {<<"time_limit", 10>>}, {<<"budget", 1000>>, <<"time_limit", 30>>} }

GatedRequests == { [request EXCEPT !.constraints = constraints] :
                     request \in Requests, constraints \in ConstraintSets }

\* check_plan's answer: {"approved": True} or {"approved": False, "reason": ...}
PolicyVerdicts == {"approved", "rejected"}

GatedDecide ==
  /\ engine.total_requests < MaxGatedRequests
  /\ \E request \in GatedRequests, verdict \in PolicyVerdicts :
       /\ Returns(decide(Begin, engine, request, "none", now))
       /\ lastOp' = Op("decide", request, "none", verdict)
  /\ UNCHANGED <<now, utility_engine, second, calls>>

GatedNext == GatedDecide

GatedSpec == Init /\ [][GatedNext]_vars

\* ------------------------------------------------------------------------
\* Two engines of one process: DecisionEngine() called twice in one working
\* directory.  Every tracker constructed without data_path keeps its profile
\* in data/maturity.json and its metrics in data/mental_health.json; the two
\* files are the stored_profile and stored_mental_health of the first
\* tracker (<< >>: no file).
\* ------------------------------------------------------------------------
MaxPairOps == 3

\* MaturityTracker.__init__: _load_profile and _load_mental_health read the
\* files when they exist
MaturityTracker(stored_profile, stored_mental_health) ==
  [NewTracker(IF DOMAIN stored_profile = {} THEN DefaultProfile ELSE _load_profile(stored_profile),
              stored_profile)
     EXCEPT !.mental_health = IF DOMAIN stored_mental_health = {} THEN DefaultMetrics
                              ELSE stored_mental_health,
            !.stored_mental_health = stored_mental_health]

\* DecisionEngine(maturity_level) over the files of the working directory
DecisionEngine(maturity_level, stored_profile, stored_mental_health) ==
  LET Built(T) ==
        [constructed |-> TRUE,
         tracker |-> IF maturity_level # T.profile.level THEN _set_maturity_level(T, maturity_level) ELSE T,
         monitor |-> NewMonitor, orientation |-> NewOrientation, engine |-> NewEngine]
  IN Built(MaturityTracker(stored_profile, stored_mental_health))

\* the methods of class MentalHealthMonitor
MentalHealthMonitorMethods ==
  {"__init__", "update_from_decision", "update_from_thought_pattern", "record_emotional_event",
   "_analyze_decision_impact", "_analyze_thought_pattern", "_detect_recursive_loops",
   "_is_circular_reference", "_update_emotional_state", "_update_emotional_stability",
   "_check_emotional_instability", "_calculate_volatility", "_detect_problematic_patterns",
   "_detect_addictive_behavior", "_detect_impulse_control_issues", "_detect_burnout_indicators",
   "_update_mental_health_status", "get_intervention_recommendations", "should_intervene",
   "get_current_metrics", "reset_metrics", "get_mental_health_summary"}

\* shutdown: the profile is saved, then the monitor is asked for
\* _save_mental_health; is_initialized is cleared after both
shutdown(W, E) ==
  LET Saved(W1) ==
        IF "_save_mental_health" \notin MentalHealthMonitorMethods
        THEN [W |-> W1, E |-> E, raised |-> "AttributeError"]
        ELSE [W |-> W1, E |-> [E EXCEPT !.is_initialized = FALSE], raised |-> "none"]
  IN Saved([W EXCEPT !.tracker = _save_profile(@)])

PairDecide ==
  /\ lastOp.n < MaxPairOps
  /\ \E request \in Requests :
       /\ Returns(decide(Begin, engine, request, "none", now))
       /\ lastOp' = Op("decide", request, "none", "")
  /\ UNCHANGED <<now, utility_engine, second, calls>>

PairRecordThoughtPattern ==
  /\ lastOp.n < MaxPairOps
  /\ \E pattern \in Patterns :
       /\ Commit(MonitorWrites(Begin, update_from_thought_pattern(Begin.monitor, pattern)))
       /\ lastOp' = Op("record_thought_pattern", NoRequest, "none", pattern.type)
  /\ UNCHANGED <<engine, utility_engine, second, calls, now, response, trace>>

PairForceMaturityProgression ==
  /\ lastOp.n < MaxPairOps
  /\ \E new_level \in ForcedLevels :
       /\ Commit(force_maturity_progression(Begin, new_level))
       /\ lastOp' = Op("force_maturity_progression", NoRequest, "none", new_level)
  /\ UNCHANGED <<engine, utility_engine, second, calls, now, response, trace>>

PairShutdown ==
  /\ lastOp.n < MaxPairOps
  /\ LET Raises(r) ==
           /\ Commit(r.W)
           /\ engine' = r.E
           /\ lastOp' = Op("shutdown", NoRequest, "none", r.raised)
     IN Raises(shutdown(Begin, engine))
  /\ UNCHANGED <<utility_engine, second, calls, now, response, trace>>

\* the second DecisionEngine() of the process
ConstructSecond ==
  /\ ~second.constructed
  /\ second' = DecisionEngine("infant", tracker.stored_profile, tracker.stored_mental_health)
  /\ UNCHANGED <<tracker, monitor, aliased, orientation, engine, utility_engine, now, response, trace, lastOp, calls>>

PairInit ==
  /\ tracker = NewDecisionEngine("infant")
  /\ monitor = NewMonitor
  /\ aliased = FALSE
  /\ orientation = NewOrientation
  /\ engine = NewEngine
  /\ utility_engine = NewUtilityEngines
  /\ second = NoEngine
  /\ calls = << >>
  /\ now = 0
  /\ response = NoResponse
  /\ trace = NoTrace
  /\ lastOp = [name |-> "init", request |-> NoRequest, fail |-> "none", arg |-> "", n |-> 0, faults |-> 0]

PairNext ==
  \/ PairDecide
  \/ PairRecordThoughtPattern
  \/ PairForceMaturityProgression
  \/ PairShutdown
  \/ ConstructSecond

PairSpec == PairInit /\ [][PairNext]_vars

\* ------------------------------------------------------------------------
\* The engine under the loops of test_performance_tracking and
\* test_maturity_progression: decide called again and again with urgency 0.5
\* and complexity 0.5 or 0.4, on an engine constructed as infant or as adult.
\* lastOp.arg names the loop as long as every call so far was one of its
\* calls.
\* ------------------------------------------------------------------------
MaxPerformanceRequests == 3

\* decide(goal="test decision i", urgency=0.5, complexity=0.5) and
\* decide(goal="successful task i", context={"success_rate": 0.9}, urgency=0.5, complexity=0.4)
TestRequests == { Request({}, {}, 50, 50), Request({}, {"success_rate"}, 50, 40) }

PerformanceDecide ==
  /\ engine.total_requests < MaxPerformanceRequests
  /\ \E request \in TestRequests \cup Requests :
       /\ Returns(decide(Begin, engine, request, "none", now))
       /\ lastOp' = Op("decide", request, "none",
                       IF request \in TestRequests /\ lastOp.arg = "test_loop" THEN "test_loop" ELSE "")
  /\ UNCHANGED <<now, utility_engine, second, calls>>

PerformanceInit ==
  /\ \E maturity_level \in ConstructorLevels : tracker = NewDecisionEngine(maturity_level)
  /\ monitor = NewMonitor
  /\ aliased = FALSE
  /\ orientation = NewOrientation
  /\ engine = NewEngine
  /\ utility_engine = NewUtilityEngines
  /\ second = NoEngine
  /\ calls = << >>
  /\ now = 0
  /\ response = NoResponse
  /\ trace = NoTrace
  /\ lastOp = [name |-> "init", request |-> NoRequest, fail |-> "none", arg |-> "test_loop", n |-> 0, faults |-> 0]

PerformanceNext == PerformanceDecide

PerformanceSpec == PerformanceInit /\ [][PerformanceNext]_vars

\* ------------------------------------------------------------------------
\* The monitor with its histories one entry short of full, driven through
\* the three methods that append to them.  The entries fed earlier are
\* numbered in a field the monitor never reads (the decision's vsp_level,
\* the pattern's outputs, the event's intensity).
\* ------------------------------------------------------------------------
MaxHistoryOps == 3

\* the monitor after 99 calls of update_from_decision with a confident
\* success (excitement settles at min(1, e + 0.09) - 0.05 = 0.95), 49 calls
\* of update_from_thought_pattern with a pattern seen once, and 199 calls of
\* record_emotional_event with an event type that moves nothing and
\* intensities 0.01 apart (volatility 0.058)
FullMonitor ==
  [NewMonitor EXCEPT
     !.decision_history =
        [i \in 1..(DecisionHistoryMaxlen - 1) |->
           DecisionData(20, 10, PctToMicro(90), "yes", 90, FALSE, TRUE, i, "stable", "confident")],
     !.thought_patterns =
        [i \in 1..(ThoughtPatternsMaxlen - 1) |-> Pattern("routine", 1, 10, {}, {i})],
     !.emotional_events =
        [i \in 1..(EmotionalEventsMaxlen - 1) |-> [type |-> "calm", intensity |-> i]],
     !.metrics.excitement_level = PctToNano(95),
     !.metrics.status = "excited"]

HistoryInit ==
  /\ monitor = FullMonitor
  /\ tracker = NewTracker(DefaultProfile, << >>)
  /\ aliased = FALSE
  /\ orientation = NewOrientation
  /\ engine = NewEngine
  /\ utility_engine = NewUtilityEngines
  /\ second = NoEngine
  /\ calls = << >>
  /\ now = 0
  /\ response = NoResponse
  /\ trace = NoTrace
  /\ lastOp = [name |-> "init", request |-> NoRequest, fail |-> "none", arg |-> "", n |-> 0, faults |-> 0]

HistoryUpdateFromDecision ==
  /\ lastOp.n < MaxHistoryOps
  /\ \E d \in MonitorDecisions :
       /\ Commit(MonitorWrites(Begin, update_from_decision(Begin.monitor, d)))
       /\ lastOp' = Op("update_from_decision", NoRequest, "none", d.src)
  /\ UNCHANGED <<engine, utility_engine, second, calls, now, response, trace>>

HistoryUpdateFromThoughtPattern ==
  /\ lastOp.n < MaxHistoryOps
  /\ \E pattern \in MonitorPatterns :
       /\ Commit(MonitorWrites(Begin, update_from_thought_pattern(Begin.monitor, pattern)))
       /\ lastOp' = Op("update_from_thought_pattern", NoRequest, "none", pattern.type)
  /\ UNCHANGED <<engine, utility_engine, second, calls, now, response, trace>>

HistoryRecordEmotionalEvent ==
  /\ lastOp.n < MaxHistoryOps
  /\ \E e \in MonitorEvents :
       /\ Commit(MonitorWrites(Begin, record_emotional_event(Begin.monitor, e[1], e[2])))
       /\ lastOp' = Op("record_emotional_event", NoRequest, "none", e[1])
  /\ UNCHANGED <<engine, utility_engine, second, calls, now, response, trace>>

HistoryNext ==
  \/ HistoryUpdateFromDecision
  \/ HistoryUpdateFromThoughtPattern
  \/ HistoryRecordEmotionalEvent

HistorySpec == HistoryInit /\ [][HistoryNext]_vars

\* ------------------------------------------------------------------------
\* The tracker's experience points: the warmed-up tracker of TrackerSpec
\* under record_learning_event calls with outcomes of every shape, and
\* record_decision calls that can complete a level.  lastOp.request is the
\* outcome dict of the call.
\* ------------------------------------------------------------------------
MaxExperienceEvents == 2

\* (event_type, outcome): the two calls of test_experience_accumulation, a
\* product that truncates to 0, one that truncates twice, a quality above
\* 1, an event type that is not in the table, and an empty outcome
ExperienceInputs ==
  { <<"successful_decision", [quality |-> 80, complexity |-> -1]>>,
    <<"complex_task", [quality |-> -1, complexity |-> 70]>>,
    <<"failed_decision", [quality |-> 10, complexity |-> -1]>>,
    <<"complex_task", [quality |-> 50, complexity |-> 50]>>,
    <<"successful_decision", [quality |-> 250, complexity |-> 100]>>,
    <<"novel_event", [quality |-> -1, complexity |-> 30]>>,
    <<"safety_violation", NoOutcome>> }

ExperienceRecordLearningEvent ==
  /\ lastOp.n < MaxExperienceEvents
  /\ \E e \in ExperienceInputs :
       /\ Commit(TrackerWrites(Begin, record_learning_event(Begin.tracker, e[1], e[2])))
       /\ lastOp' = [TrackerOp("record_learning_event", e[1], 1) EXCEPT !.request = e[2]]
  /\ UNCHANGED <<engine, utility_engine, second, calls, now, response, trace>>

ExperienceNext ==
  \/ ExperienceRecordLearningEvent
  \/ TrackerRecordDecision

ExperienceSpec == TrackerInit /\ [][ExperienceNext]_vars

\* ------------------------------------------------------------------------
\* The engine at every maturity level: constructed at any of the four
\* levels, moved to any other by force_maturity_progression, and asked to
\* decide.
\* ------------------------------------------------------------------------
MaxLevelOps == 3

\* the requests of Spec, a plain question rated complex by its caller
\* (complexity 0.8), a plain question that is urgent (urgency 0.95), and
\* easy requests of the goal types retrieve, create, analyze, plan and tool
LevelRequests ==
  Requests \cup { Request({"answer"}, {}, 50, 80), Request({"answer"}, {}, 95, 20),
                  Request({"find"}, {}, 30, 20), Request({"create"}, {}, 30, 20),
                  Request({"analyze"}, {}, 30, 20), Request({"plan"}, {}, 30, 20),
                  Request({"run"}, {}, 30, 20) }

LevelDecide ==
  /\ lastOp.n < MaxLevelOps
  /\ \E request \in LevelRequests :
       /\ Returns(decide(Begin, engine, request, "none", now))
       /\ lastOp' = Op("decide", request, "none", "")
  /\ UNCHANGED <<now, utility_engine, second, calls>>

LevelForceMaturityProgression ==
  /\ lastOp.n < MaxLevelOps
  /\ \E new_level \in Levels :
       /\ Commit(force_maturity_progression(Begin, new_level))
       /\ lastOp' = Op("force_maturity_progression", NoRequest, "none", new_level)
  /\ UNCHANGED <<engine, utility_engine, second, calls, now, response, trace>>

LevelInit ==
  /\ \E maturity_level \in Levels : tracker = NewDecisionEngine(maturity_level)
  /\ monitor = NewMonitor
  /\ aliased = FALSE
  /\ orientation = NewOrientation
  /\ engine = NewEngine
  /\ utility_engine = NewUtilityEngines
  /\ second = NoEngine
  /\ calls = << >>
  /\ now = 0
  /\ response = NoResponse
  /\ trace = NoTrace
  /\ lastOp = [name |-> "init", request |-> NoRequest, fail |-> "none", arg |-> "", n |-> 0, faults |-> 0]

LevelNext ==
  \/ LevelDecide
  \/ LevelForceMaturityProgression

LevelSpec == LevelInit /\ [][LevelNext]_vars

\* ------------------------------------------------------------------------
\* Monitors constructed with a personality: MentalHealthMonitor(personality)
\* fed decisions, thought patterns and emotional events.
\* ------------------------------------------------------------------------
MaxPersonalityOps == 3

IntuitivePersonality == PersonalityInfluence("intuitive", 50, 50, 80, 20, 60)

MonitorPersonalities == { NoPersonality, AnalyticalPersonality, IntuitivePersonality, EvenPersonality }

MentalHealthMonitor(personality_influence) ==
  [NewMonitor EXCEPT !.personality_influence = personality_influence]

PersonalityInit ==
  /\ monitor \in { MentalHealthMonitor(p) : p \in MonitorPersonalities }
  /\ tracker = NewTracker(DefaultProfile, << >>)
  /\ aliased = FALSE
  /\ orientation = NewOrientation
  /\ engine = NewEngine
  /\ utility_engine = NewUtilityEngines
  /\ second = NoEngine
  /\ calls = << >>
  /\ now = 0
  /\ response = NoResponse
  /\ trace = NoTrace
  /\ lastOp = [name |-> "init", request |-> NoRequest, fail |-> "none", arg |-> "", n |-> 0, faults |-> 0]

PersonalityUpdateFromDecision ==
  /\ lastOp.n < MaxPersonalityOps
  /\ \E d \in MonitorDecisions :
       /\ Commit(MonitorWrites(Begin, update_from_decision(Begin.monitor, d)))
       /\ lastOp' = Op("update_from_decision", NoRequest, "none", d.src)
  /\ UNCHANGED <<engine, utility_engine, second, calls, now, response, trace>>

PersonalityUpdateFromThoughtPattern ==
  /\ lastOp.n < MaxPersonalityOps
  /\ \E pattern \in MonitorPatterns :
       /\ Commit(MonitorWrites(Begin, update_from_thought_pattern(Begin.monitor, pattern)))
       /\ lastOp' = Op("update_from_thought_pattern", NoRequest, "none", pattern.type)
  /\ UNCHANGED <<engine, utility_engine, second, calls, now, response, trace>>

PersonalityRecordEmotionalEvent ==
  /\ lastOp.n < MaxPersonalityOps
  /\ \E e \in MonitorEvents :
       /\ Commit(MonitorWrites(Begin, record_emotional_event(Begin.monitor, e[1], e[2])))
       /\ lastOp' = Op("record_emotional_event", NoRequest, "none", e[1])
  /\ UNCHANGED <<engine, utility_engine, second, calls, now, response, trace>>

PersonalityNext ==
  \/ PersonalityUpdateFromDecision
  \/ PersonalityUpdateFromThoughtPattern
  \/ PersonalityRecordEmotionalEvent

PersonalitySpec == PersonalityInit /\ [][PersonalityNext]_vars

\* ------------------------------------------------------------------------
\* A fresh monitor fed thought patterns only, as test_recursive_loop_detection
\* feeds it: five calls of update_from_thought_pattern.
\* ------------------------------------------------------------------------
MaxLoopOps == 5

\* the pattern of the test: no inputs, no outputs
TestRecursivePattern == Pattern("recursive", 3, 90, {}, {})

\* two patterns that feed each other
EchoPattern == Pattern("echo", 1, 50, {"a"}, {"b"})
ReplyPattern == Pattern("reply", 1, 50, {"b"}, {"a"})

LoopPatterns == { TestRecursivePattern, RecursivePattern, EchoPattern, ReplyPattern }

LoopInit ==
  /\ monitor = NewMonitor
  /\ tracker = NewTracker(DefaultProfile, << >>)
  /\ aliased = FALSE
  /\ orientation = NewOrientation
  /\ engine = NewEngine
  /\ utility_engine = NewUtilityEngines
  /\ second = NoEngine
  /\ calls = << >>
  /\ now = 0
  /\ response = NoResponse
  /\ trace = NoTrace
  /\ lastOp = [name |-> "init", request |-> NoRequest, fail |-> "none", arg |-> "", n |-> 0, faults |-> 0]

LoopUpdateFromThoughtPattern ==
  /\ lastOp.n < MaxLoopOps
  /\ \E pattern \in LoopPatterns :
       /\ Commit(MonitorWrites(Begin, update_from_thought_pattern(Begin.monitor, pattern)))
       /\ lastOp' = Op("update_from_thought_pattern", NoRequest, "none", pattern.type)
  /\ UNCHANGED <<engine, utility_engine, second, calls, now, response, trace>>

LoopNext == LoopUpdateFromThoughtPattern

LoopSpec == LoopInit /\ [][LoopNext]_vars

\* ------------------------------------------------------------------------
\* The convenience function: each call of make_decision builds an engine over
\* the files of the working directory, decides once and shuts the engine
\* down.  The variables hold the engine of the latest call; response is what
\* its decide returned and lastOp.arg the exception the caller got instead
\* ("none" when the response was returned).
\* ------------------------------------------------------------------------
MaxConvenienceCalls == 3

\* decide(goal, context): urgency and complexity take their defaults, 0.5
ConvenienceRequests ==
  { Request({"answer"}, {}, 50, 50),
    Request({"analyze"}, {"requires_external_data"}, 50, 50),
    Request({"analyze"}, {"requires_external_data", "requires_multiple_steps"}, 50, 50),
    Request({"create"}, {}, 50, 50),
    Request({"create", "plan"}, {"requires_multiple_steps", "time_sensitive"}, 50, 50) }

make_decision(request, maturity_level, stored_profile, stored_mental_health, t) ==
  LET Finally(decided, closed) ==
        [W |-> closed.W, E |-> closed.E, trace |-> decided.trace, response |-> decided.response,
         raised |-> closed.raised]
      Try(decided) == Finally(decided, shutdown(decided.W, decided.E))
      Constructed(built) ==
        Try(decide([tracker |-> built.tracker, monitor |-> built.monitor, aliased |-> FALSE,
                    orientation |-> built.orientation],
                   built.engine, request, "none", t))
  IN Constructed(DecisionEngine(maturity_level, stored_profile, stored_mental_health))

ConvenienceInit ==
  /\ tracker = NewDecisionEngine("infant")
  /\ monitor = NewMonitor
  /\ aliased = FALSE
  /\ orientation = NewOrientation
  /\ engine = NewEngine
  /\ utility_engine = NewUtilityEngines
  /\ second = NoEngine
  /\ calls = << >>
  /\ now = 0
  /\ response = NoResponse
  /\ trace = NoTrace
  /\ lastOp = [name |-> "init", request |-> NoRequest, fail |-> "none", arg |-> "", n |-> 0, faults |-> 0]

MakeDecision ==
  /\ lastOp.n < MaxConvenienceCalls
  /\ \E request \in ConvenienceRequests, maturity_level \in Levels :
       LET Called(r) ==
             /\ Returns(r)
             /\ lastOp' = Op("make_decision", request, "none", r.raised)
       IN Called(make_decision(request, maturity_level, tracker.stored_profile,
                               tracker.stored_mental_health, now))
  /\ UNCHANGED <<now, utility_engine, second, calls>>

ConvenienceNext == MakeDecision

ConvenienceSpec == ConvenienceInit /\ [][ConvenienceNext]_vars

\* ------------------------------------------------------------------------
\* Tasks of one event loop calling process_request on one Orientation.  calls
\* holds, for each call, the phase it runs next and its local variables
\* (request, state, evaluation, plan_result, action_result); the attributes of
\* the instance (cycle_count, vsp_level, current_mode) and the tracker and the
\* monitor are shared.  A phase runs from one await of process_request to the
\* next; a suspension at a collaborator awaited at the head of Plan or inside
\* Act falls before the phase's writes and is a switch at the phase boundary.
\* summary is the decision_data the Learn phase recorded.
\* ------------------------------------------------------------------------
MaxTasks == 2

InterleaveRequests == { request \in Requests : RequestIsValid(request) }

NoLocal == [none |-> TRUE]

Call(pc, request, state, evaluation, plan_result, action_result, summary) ==
  [pc |-> pc, request |-> request, state |-> state, evaluation |-> evaluation,
   plan_result |-> plan_result, action_result |-> action_result, summary |-> summary]

\* the phase of call i has run: the shared objects and the call's locals
Resumed(W, i, call) ==
  /\ Commit(W)
  /\ calls' = [calls EXCEPT ![i] = call]

InterleaveInit ==
  /\ \E maturity_level \in ConstructorLevels : tracker = NewDecisionEngine(maturity_level)
  /\ monitor = NewMonitor
  /\ aliased = FALSE
  /\ orientation = NewOrientation
  /\ engine = NewEngine
  /\ utility_engine = NewUtilityEngines
  /\ second = NoEngine
  /\ calls = << >>
  /\ now = 0
  /\ response = NoResponse
  /\ trace = NoTrace
  /\ lastOp = [name |-> "init", request |-> NoRequest, fail |-> "none", arg |-> "", n |-> 0, faults |-> 0]

\* process_request up to its first await: the cycle is counted
ProcessRequestBegin ==
  /\ Len(calls) < MaxTasks
  /\ \E request \in InterleaveRequests :
       /\ Commit([Begin EXCEPT !.orientation.cycle_count = @ + 1, !.orientation.phases = << >>])
       /\ calls' = Append(calls, Call("sense", request, NoLocal, NoLocal, NoLocal, NoLocal, NoLocal))
  /\ UNCHANGED <<engine, utility_engine, second, now, response, trace, lastOp>>

ResumeSense ==
  /\ \E i \in DOMAIN calls :
       /\ calls[i].pc = "sense"
       /\ LET Sensed(r) == Resumed(r.W, i, [calls[i] EXCEPT !.pc = "evaluate", !.state = r.state])
          IN Sensed(_sense(Begin, calls[i].request))
  /\ UNCHANGED <<engine, utility_engine, second, now, response, trace, lastOp>>

ResumeEvaluate ==
  /\ \E i \in DOMAIN calls :
       /\ calls[i].pc = "evaluate"
       /\ LET Evaluated(r) ==
                Resumed(r.W, i, [calls[i] EXCEPT !.pc = "plan", !.evaluation = r.evaluation])
          IN Evaluated(_evaluate(Begin, calls[i].request, calls[i].state))
  /\ UNCHANGED <<engine, utility_engine, second, now, response, trace, lastOp>>

ResumePlan ==
  /\ \E i \in DOMAIN calls :
       /\ calls[i].pc = "plan"
       /\ LET Planned(r) ==
                Resumed(r.W, i, [calls[i] EXCEPT !.pc = "act", !.plan_result = [r EXCEPT !.W = NoLocal]])
          IN Planned(_plan(Begin, calls[i].request, calls[i].state, calls[i].evaluation))
  /\ UNCHANGED <<engine, utility_engine, second, now, response, trace, lastOp>>

ResumeAct ==
  /\ \E i \in DOMAIN calls :
       /\ calls[i].pc = "act"
       /\ LET Acted(r) ==
                Resumed(r.W, i, [calls[i] EXCEPT !.pc = "learn", !.action_result = [r EXCEPT !.W = NoLocal]])
          IN Acted(_act(Begin, calls[i].plan_result))
  /\ UNCHANGED <<engine, utility_engine, second, now, response, trace, lastOp>>

\* the Learn phase and the return of the response
ResumeLearn ==
  /\ \E i \in DOMAIN calls :
       /\ calls[i].pc = "learn"
       /\ LET Learned(r) ==
                /\ Resumed(r.W, i,
                           [calls[i] EXCEPT
                              !.pc = "done",
                              !.summary = r.W.tracker.decision_history[Len(r.W.tracker.decision_history)].data])
                /\ response' = [kind |-> "cycle",
                                plan_id |-> calls[i].plan_result.selected_plan.id,
                                confidence |-> calls[i].plan_result.confidence,
                                mental_health_status |-> r.W.monitor.metrics.status,
                                maturity_level |-> r.W.tracker.profile.level,
                                trace_id |-> calls[i].plan_result.trace_id,
                                warnings |-> calls[i].plan_result.warnings,
                                recommendations |-> r.recommendations]
                /\ trace' = calls[i].plan_result.trace
                /\ lastOp' = Op("process_request", calls[i].request, "none", "")
          IN Learned(_learn(Begin, calls[i].request, calls[i].state, calls[i].evaluation,
                            calls[i].plan_result, calls[i].action_result, "none"))
  /\ UNCHANGED <<engine, utility_engine, second, now>>

InterleaveNext ==
  \/ ProcessRequestBegin
  \/ ResumeSense
  \/ ResumeEvaluate
  \/ ResumePlan
  \/ ResumeAct
  \/ ResumeLearn

InterleaveSpec == InterleaveInit /\ [][InterleaveNext]_vars

\* ------------------------------------------------------------------------
\* An adult engine whose monitor earlier calls have left in one of the warm
\* states: decide, reset_mental_health, recorded patterns and events, and
\* the clock.
\* ------------------------------------------------------------------------
MaxGateOps == 3

GateInit ==
  /\ monitor \in WarmMonitors
  /\ tracker = NewDecisionEngine("adult")
  /\ aliased = FALSE
  /\ orientation = NewOrientation
  /\ engine = NewEngine
  /\ utility_engine = NewUtilityEngines
  /\ second = NoEngine
  /\ calls = << >>
  /\ now = 0
  /\ response = NoResponse
  /\ trace = NoTrace
  /\ lastOp = [name |-> "init", request |-> NoRequest, fail |-> "none", arg |-> "", n |-> 0, faults |-> 0]

GateDecide ==
  /\ lastOp.n < MaxGateOps
  /\ \E request \in Requests :
       /\ Returns(decide(Begin, engine, request, "none", now))
       /\ lastOp' = Op("decide", request, "none", "")
  /\ UNCHANGED <<now, utility_engine, second, calls>>

GateRecordThoughtPattern ==
  /\ lastOp.n < MaxGateOps
  /\ \E pattern \in Patterns :
       /\ Commit(MonitorWrites(Begin, update_from_thought_pattern(Begin.monitor, pattern)))
       /\ lastOp' = Op("record_thought_pattern", NoRequest, "none", pattern.type)
  /\ UNCHANGED <<engine, utility_engine, second, calls, now, response, trace>>

GateRecordEmotionalEvent ==
  /\ lastOp.n < MaxGateOps
  /\ \E e \in MonitorEvents :
       /\ Commit(MonitorWrites(Begin, record_emotional_event(Begin.monitor, e[1], e[2])))
       /\ lastOp' = Op("record_emotional_event", NoRequest, "none", e[1])
  /\ UNCHANGED <<engine, utility_engine, second, calls, now, response, trace>>

GateResetMentalHealth ==
  /\ lastOp.n < MaxGateOps
  /\ Commit(ResetMonitorMetrics(Begin, now))
  /\ lastOp' = Op("reset_mental_health", NoRequest, "none", "")
  /\ UNCHANGED <<engine, utility_engine, second, calls, now, response, trace>>

GateTick ==
  /\ now < InterventionCooldown
  /\ now' = now + InterventionCooldown
  /\ UNCHANGED <<tracker, monitor, aliased, orientation, engine, utility_engine, second, calls, response, trace, lastOp>>

GateNext ==
  \/ GateDecide
  \/ GateRecordThoughtPattern
  \/ GateRecordEmotionalEvent
  \/ GateResetMentalHealth
  \/ GateTick

GateSpec == GateInit /\ [][GateNext]_vars

\* ------------------------------------------------------------------------
\* Properties
\* ------------------------------------------------------------------------
\* the step is a call of decide
DecideStep == lastOp'.name = "decide" /\ lastOp'.n = lastOp.n + 1

HasWarning(r, text, arg) ==
  \E i \in DOMAIN r.warnings : r.warnings[i].text = text /\ r.warnings[i].arg = arg

ResponseKinds == {"cycle", "fallback", "constraint_violation", "intervention", "error"}

\* what a rejected or failed request must leave alone: the profile, the
\* tracker's histories, the metrics under both names, the monitor's deques
StateKept ==
  /\ tracker'.profile = tracker.profile
  /\ tracker'.decision_history = tracker.decision_history
  /\ tracker'.learning_events = tracker.learning_events
  /\ tracker'.mental_health = tracker.mental_health
  /\ monitor'.metrics = monitor.metrics
  /\ monitor'.decision_history = monitor.decision_history
  /\ monitor'.thought_patterns = monitor.thought_patterns
  /\ monitor'.emotional_events = monitor.emotional_events

\* C1: every call of decide returns a response (it never raises), and the
\* confidence of the response lies in [0, 1], also when a phase of the cycle
\* fails.
C1_DecideReturnsResponse ==
  lastOp.name = "decide" =>
    /\ response.kind \in ResponseKinds
    /\ 0 <= response.confidence /\ response.confidence <= Micro
    /\ lastOp.fail # "none" => response.kind = "fallback"

C1_Witness ==
  /\ lastOp.name = "decide" /\ lastOp.fail = "plan"
  /\ response.kind = "fallback" /\ response.confidence = PctToMicro(10)

ComplexityExceeds(T, request) == request.complexity > MATURITY_CONFIGS[T.profile.level].max_complexity

UrgencyExceeds(T, request) == request.urgency > MATURITY_CONFIGS[T.profile.level].max_urgency

\* what C2 promises of a decide step
CeilingRejection ==
  /\ response'.confidence = 0
  /\ response'.warnings # << >>
  /\ ComplexityExceeds(tracker, lastOp'.request) =>
       HasWarning(response', "Complexity exceeds maturity level", tracker.profile.level)
  /\ UrgencyExceeds(tracker, lastOp'.request) =>
       HasWarning(response', "Urgency exceeds maturity level", tracker.profile.level)
  /\ orientation' = orientation
  /\ trace' = NoTrace

Level == tracker.profile.level

\* C4 (as amended): under record_decision, record_learning_event and
\* update_mental_health, profile.level never moves to a lower level;
\* force_maturity_progression sets whatever level it is given, lower ones
\* included.
C4_LevelNeverDecreasesUnforced ==
  [][lastOp'.name # "force_maturity_progression" =>
       LevelRank(tracker'.profile.level) >= LevelRank(Level)]_vars

C4_Witness ==
  /\ lastOp.name = "record_decision" /\ Level = "adolescent"
  /\ tracker.stored_profile.level = "adolescent"

\* C4 as stated: no operation lowers profile.level
C4_AsStated == [][LevelRank(tracker'.profile.level) >= LevelRank(Level)]_vars

\* the five readiness conditions, read off a logged call of
\* _progress_to_level
ReadyAt(e) ==
  LET min_age == MATURITY_CONFIGS[e.to].min_age
      recent == LastN(e.decision_history, 50)
  IN /\ e.profile.age_months >= min_age
     /\ e.profile.experience_points >= min_age * 100
     /\ e.mental_health.status = "stable"
     /\ e.mental_health.stress_level <= 700000000
     /\ e.mental_health.burnout_risk <= 500000000
     /\ Cardinality({i \in DOMAIN recent : recent[i].data.success_rate > 80}) >= 30

\* C5: every level change made by the tracker's assessment happens where the
\* five readiness conditions hold for the target level, and the target is
\* the immediate successor of the level left.
C5_ProgressionOnlyWhenReady ==
  \A i \in DOMAIN tracker.progressions :
    \/ lastOp.name = "force_maturity_progression" /\ i = 1
    \/ /\ ReadyAt(tracker.progressions[i])
       /\ tracker.progressions[i].from \in Levels
       /\ LevelRank(tracker.progressions[i].to) = LevelRank(tracker.progressions[i].from) + 1

C5_Witness ==
  /\ lastOp.name = "record_decision"
  /\ Len(tracker.progressions) = 2
  /\ tracker.progressions[2].to = "adolescent"

\* the four parameters no intervention touches
FourParametersOfLevel ==
  /\ tracker.profile.confidence_threshold = MATURITY_CONFIGS[Level].confidence_threshold
  /\ tracker.profile.risk_tolerance = MATURITY_CONFIGS[Level].risk_tolerance
  /\ tracker.profile.exploration_rate = MATURITY_CONFIGS[Level].exploration_rate
  /\ tracker.profile.learning_rate = MATURITY_CONFIGS[Level].learning_rate

\* C6 (as amended): confidence_threshold, risk_tolerance, exploration_rate
\* and learning_rate always equal the MATURITY_CONFIGS entry of the current
\* level; supervision_level equals that entry's value raised by 0.2 (capped
\* at 1.0) for each recursive-loop intervention since the last level change.
C6_ParametersOfLevelUpToInterventions ==
  /\ FourParametersOfLevel
  /\ \E k \in 0..5 :
       tracker.profile.supervision_level = Min(100, MATURITY_CONFIGS[Level].supervision_level + 20 * k)

C6_Witness ==
  /\ lastOp.name = "decide" /\ response.kind = "cycle"
  /\ Level = "infant" /\ tracker.profile.supervision_level = 100
  /\ tracker.mental_health.recursive_loop_count = 0

\* C6 as stated: all five parameters equal the entry of the current level
C6_AsStated ==
  /\ FourParametersOfLevel
  /\ tracker.profile.supervision_level = MATURITY_CONFIGS[Level].supervision_level

\* the step is a call of the tracker's update_mental_health; the metrics it
\* received are the ones it saved before looking for interventions
UpdateStep == lastOp'.name = "update_mental_health" /\ lastOp'.n = lastOp.n + 1

Received == tracker'.stored_mental_health

AtThreshold == Received.recursive_loop_count >= MATURITY_CONFIGS[Level].recursive_loop_threshold

\* C9 (as amended): update_mental_health with recursive_loop_count at or
\* above the level's threshold leaves the count 0 and supervision_level at
\* min(1.0, previous + 0.2); below the threshold neither changes; except
\* that when the learning event of an intervention completes a level
\* progression inside the call, supervision_level is the new level's value.
C9_InterventionUnlessProgression ==
  [][UpdateStep =>
       /\ tracker'.mental_health.recursive_loop_count = (IF AtThreshold THEN 0 ELSE Received.recursive_loop_count)
       /\ tracker'.profile.supervision_level =
            (IF tracker'.profile.level # Level
             THEN MATURITY_CONFIGS[tracker'.profile.level].supervision_level
             ELSE IF AtThreshold THEN Min(100, tracker.profile.supervision_level + 20)
             ELSE tracker.profile.supervision_level)]_vars

C9_Witness ==
  /\ lastOp.name = "update_mental_health"
  /\ tracker.stored_mental_health.recursive_loop_count = 2
  /\ tracker.mental_health.recursive_loop_count = 0
  /\ Level = "infant" /\ tracker.profile.supervision_level = 100

\* C9 as stated
C9_AsStated ==
  [][UpdateStep =>
       IF AtThreshold
       THEN /\ tracker'.mental_health.recursive_loop_count = 0
            /\ tracker'.profile.supervision_level = Min(100, tracker.profile.supervision_level + 20)
       ELSE /\ tracker'.mental_health.recursive_loop_count = Received.recursive_loop_count
            /\ tracker'.profile.supervision_level = tracker.profile.supervision_level]_vars

\* C7: in every reachable state metrics.status is the status the fixed
\* priority table gives for the current numeric metrics.
C7_StatusFollowsTable == monitor.metrics.status = StatusOf(monitor.metrics)

\* only update_from_thought_pattern has been called since the monitor was
\* built, each time with repetition_count 4 and similarity_score 0.9
FreshMonitorFedPatterns ==
  /\ lastOp.name = "record_thought_pattern"
  /\ lastOp.n = Len(monitor.thought_patterns)
  /\ \A i \in DOMAIN monitor.thought_patterns :
       /\ monitor.thought_patterns[i].repetition_count = 4
       /\ monitor.thought_patterns[i].similarity_score = 90

\* C8: on a fresh monitor, after four or more such update_from_thought_pattern
\* calls recursive_loop_count is >= 3 and metrics.status is recursive.
C8_FourPatternsFlipStatus ==
  (FreshMonitorFedPatterns /\ Len(monitor.thought_patterns) >= 4) =>
    /\ monitor.metrics.recursive_loop_count >= 3
    /\ monitor.metrics.status = "recursive"

\* C10: when a phase of the cycle raises, process_request returns the
\* fallback response (confidence 0.1, a warning naming the failure) and the
\* profile, the tracker's histories, the metrics and the monitor's histories
\* are as they were before the cycle.
C10_FailedCycleKeepsState ==
  [][(DecideStep /\ lastOp'.fail # "none") =>
       /\ response'.kind = "fallback"
       /\ response'.confidence = PctToMicro(10)
       /\ HasWarning(response', "SEPA cycle failed", lastOp'.fail)
       /\ StateKept]_vars

\* the five phases in the order process_request calls them
PhaseOrder == <<"sense", "evaluate", "plan", "act", "learn">>

PhaseOfFail(fail) ==
  IF fail \in {"learn_0", "learn_1", "learn_monitor", "learn_2", "learn_3"} THEN "learn" ELSE fail

RanCycle(r) == r.kind \in {"cycle", "fallback"}

\* C11: in every call of process_request the phases entered are an initial
\* run of Sense, Evaluate, Plan, Act, Learn in that order, each once; a cycle
\* that completes has entered all five; a cycle in which a phase raises has
\* entered nothing after that phase; and unless Learn was entered the
\* maturity and mental-health state is as it was before the cycle.
C11_PhasesInOrder ==
  [][(DecideStep /\ RanCycle(response')) =>
       /\ \E k \in 1..5 : orientation'.phases = SubSeq(PhaseOrder, 1, k)
       /\ response'.kind = "cycle" => orientation'.phases = PhaseOrder
       /\ lastOp'.fail # "none" =>
            orientation'.phases[Len(orientation'.phases)] = PhaseOfFail(lastOp'.fail)
       /\ Len(orientation'.phases) < 5 => StateKept]_vars

\* a cycle that raised before Learn reached the monitor, and a later one
\* that completed
C11_Witness ==
  /\ lastOp.name = "decide" /\ response.kind = "cycle"
  /\ orientation.phases = PhaseOrder
  /\ orientation.cycle_count = 2
  /\ Len(monitor.decision_history) = 1
  /\ engine.successful_decisions = 2

\* the conditions under which C12 promises a decision
WithinCeilings(request) ==
  /\ RequestIsValid(request)
  /\ ~ComplexityExceeds(tracker, request)
  /\ ~UrgencyExceeds(tracker, request)
  /\ monitor.metrics.status # "overwhelmed"
  /\ monitor.metrics.recursive_loop_count < 3
  /\ ~should_intervene(monitor, now)

QueryStep == lastOp'.name = "should_intervene" /\ lastOp.name # "should_intervene"

\* a metric is across its hard threshold (1e-9 units)
Crossed(m) ==
  \/ m.stress_level > 800000000
  \/ m.excitement_level > 900000000
  \/ m.recursive_loop_count >= 3
  \/ m.addictive_behavior_score > 700000000
  \/ m.burnout_risk > 800000000
  \/ m.emotional_stability < 300000000

CooldownOver == monitor.last_intervention = -1 \/ now - monitor.last_intervention >= 30

\* C13: should_intervene returns true exactly when a metric is across its
\* hard threshold and either no intervention has happened yet or 30 minutes
\* have passed since the last one.
C13_InterveneIffCrossedAndCooledDown ==
  [][QueryStep => ((lastOp'.arg = "True") <=> (Crossed(monitor.metrics) /\ CooldownOver))]_vars

\* a reset, then a decision that drives the stress above 0.8: refused a
\* minute before the cooldown ends, granted at the minute it ends
C13_Witness ==
  /\ lastOp.name = "should_intervene" /\ lastOp.arg = "True"
  /\ monitor.last_intervention = 0 /\ now = 30
  /\ monitor.metrics.stress_level > 800000000

\* the decision summary a completed cycle handed to update_from_decision
\* is the one it recorded in the tracker first
CycleDecisionData == tracker'.decision_history[Len(tracker'.decision_history)].data

\* C14: the metrics the monitor reports are changed by the monitor's own
\* operations only: a forced progression or a direct update_mental_health
\* leaves every field alone, and after a completed cycle they are exactly
\* what update_from_decision made of them.
C14_MetricsChangedByMonitorOnly ==
  [][/\ lastOp'.name \in {"force_maturity_progression", "update_mental_health"} =>
          monitor'.metrics = monitor.metrics
     /\ (DecideStep /\ response'.kind = "cycle") =>
          monitor'.metrics = update_from_decision(monitor, CycleDecisionData).metrics]_vars

\* the numeric fields of a MentalHealthMetrics are within their ranges
InRange(m) ==
  /\ 0 <= m.stress_level /\ m.stress_level <= Nano
  /\ 0 <= m.excitement_level /\ m.excitement_level <= Nano
  /\ 0 <= m.emotional_stability /\ m.emotional_stability <= Nano
  /\ 0 <= m.burnout_risk /\ m.burnout_risk <= Nano
  /\ 0 <= m.addictive_behavior_score /\ m.addictive_behavior_score <= Nano
  /\ 0 <= m.impulse_control_score /\ m.impulse_control_score <= Nano
  /\ m.recursive_loop_count \in Nat

\* C15: in every reachable state the six scores of the metrics lie in
\* [0, 1] and recursive_loop_count is a non-negative integer, under either
\* name the metrics are held by.
C15_MetricsInRange == InRange(monitor.metrics) /\ InRange(tracker.mental_health)

\* the tracker's burnout intervention met a stress level below 0.3 and
\* floored it at 0
C15_Witness ==
  /\ lastOp.name = "update_mental_health"
  /\ aliased
  /\ \E i \in DOMAIN tracker.learning_events : tracker.learning_events[i].type = "burnout_intervention"
  /\ monitor.metrics.stress_level = 0
  /\ monitor.metrics.burnout_risk = 550000000

\* C16: every score U recorded for a candidate plan in a decision trace lies
\* in [0, 1], at every maturity level and for every goal type.
C16_UtilityWithinUnitInterval ==
  trace # NoTrace =>
    \A i \in DOMAIN trace.candidates :
      0 <= trace.candidates[i].U /\ trace.candidates[i].U <= Micro

\* what a newly built engine returns for the arguments of the last call
FreshResult ==
  IF lastOp.arg = "basic"
  THEN calculate_utility(NewUtilityEngines.basic, lastOp.request.plan, lastOp.request.maturity_level,
                         lastOp.request.personality_influence, lastOp.request.context).result
  ELSE Enhanced_calculate_utility(NewUtilityEngines.enhanced, lastOp.request.plan,
                                  lastOp.request.maturity_level, lastOp.request.personality_influence,
                                  lastOp.request.pmx, lastOp.request.context).result

\* C17: a calculate_utility call leaves the weight and heuristic tables of
\* its engine as they were built, and what it returns (utility, components,
\* weights, explanation) is what a newly built engine returns for the same
\* plan, level, personality, matrix and context, whatever calls came before;
\* two calls with identical arguments therefore return identical results.
C17_UtilityIsDeterministic ==
  /\ utility_engine = NewUtilityEngines
  /\ lastOp.name = "calculate_utility" => response = FreshResult

\* a call without matrix and personality returns the adult row as built,
\* after an earlier call merged a matrix into its copy of that row
C17_Witness ==
  /\ lastOp.name = "calculate_utility"
  /\ lastOp.arg = "enhanced"
  /\ lastOp.n >= 2
  /\ "adult" \in trace.merged
  /\ lastOp.request.maturity_level = "adult"
  /\ lastOp.request.pmx = NoMatrix
  /\ lastOp.request.personality_influence = NoPersonality
  /\ lastOp.request.context = {}
  /\ response.weights = Enhanced_maturity_weights["adult"]

WeightSum(weights) == weights.goal + weights.quality + weights.risk + weights.spend

\* C18: whenever calculate_utility is given a personality influence, the
\* weights of goal, quality, risk and spend it combines sum to 1 (to the
\* rounding of the four divisions).
C18_TiltedWeightsSumToOne ==
  (lastOp.name = "calculate_utility" /\ lastOp.request.personality_influence # NoPersonality) =>
    /\ Micro - 4 <= WeightSum(response.weights)
    /\ WeightSum(response.weights) <= Micro

\* the best-scored candidate of the last cycle
TopRankedPlan ==
  LET plans == _generate_candidate_plans(World)
  IN plans[CHOOSE i \in DOMAIN plans : plans[i].id = trace.candidates[1].id]

PolicyFlags(r) == IF "policy_flags" \in DOMAIN r THEN r.policy_flags ELSE {}

FallbackUsed(r) == "fallback_used" \in DOMAIN r /\ r.fallback_used

\* C19: a decision whose plan the policy check rejects returns a response
\* that carries a lower-ranked plan instead of the best-scored one, is
\* flagged denied with fallback used, and has a warning.
C19_PolicyRejectionFallsBack ==
  (lastOp.name = "decide" /\ lastOp.arg = "rejected" /\ response.kind = "cycle") =>
    /\ response.plan_id # TopRankedPlan.id
    /\ "denied" \in PolicyFlags(response)
    /\ FallbackUsed(response)
    /\ response.warnings # << >>

\* the limits of the request that the plan's allocation exceeds
ExceededLimits(request, plan) ==
  { limit \in {"time_limit", "budget"} :
      \E pair \in request.constraints :
        /\ pair[1] = limit
        /\ pair[2] < (IF limit = "time_limit" THEN _allocate_resources(plan).time_seconds
                      ELSE _allocate_resources(plan).tokens) }

\* C20: a decision on a request whose time limit or budget is below the
\* estimate of the best-scored plan returns a lower-ranked plan and a
\* warning for each exceeded limit; the cycle is not aborted.
C20_ExceededLimitFallsBack ==
  (lastOp.name = "decide" /\ response.kind = "cycle"
     /\ ExceededLimits(lastOp.request, TopRankedPlan) # {}) =>
    /\ response.plan_id # TopRankedPlan.id
    /\ \A limit \in ExceededLimits(lastOp.request, TopRankedPlan) :
         \E i \in DOMAIN response.warnings : response.warnings[i].arg = limit

\* C21: a DecisionEngine constructed with default arguments starts from the
\* default infant profile, the default metrics and empty histories, whatever
\* another engine of the same process and working directory did before.
C21_SecondEngineStartsFresh ==
  second.constructed =>
    /\ second.tracker.profile = NewDecisionEngine("infant").profile
    /\ second.tracker.mental_health = DefaultMetrics
    /\ second.tracker.decision_history = << >>
    /\ second.monitor = NewMonitor

\* the trace created by the latest decide call names the response's plan as
\* its winner, among its candidates, and the response names the trace
CarriesItsTrace ==
  /\ trace # NoTrace
  /\ trace.id[1] = orientation.cycle_count
  /\ response.trace_id = trace.id
  /\ trace.winner = response.plan_id
  /\ \E i \in DOMAIN trace.candidates : trace.candidates[i].id = trace.winner

C23_TestLoopDecisionsSucceed ==
  (lastOp.name = "decide" /\ lastOp.arg = "test_loop" /\ tracker.profile.level = "infant") =>
    /\ engine.total_requests = lastOp.n
    /\ engine.successful_decisions = lastOp.n
    /\ engine.average_confidence > 0
    /\ Len(tracker.decision_history) >= lastOp.n

\* the status the priority order gives for the monitor's current metrics
PriorityStatus ==
  IF monitor.metrics.stress_level > PctToNano(70) THEN "stressed"
  ELSE IF monitor.metrics.excitement_level > PctToNano(80) THEN "excited"
  ELSE IF monitor.metrics.recursive_loop_count >= 3 THEN "recursive"
  ELSE IF monitor.metrics.addictive_behavior_score >= PctToNano(60) THEN "addictive"
  ELSE IF monitor.metrics.burnout_risk >= PctToNano(80) THEN "overwhelmed"
  ELSE "stable"

\* C24: immediately after update_from_decision, metrics.status is the first
\* match of: stress_level > 0.7 stressed, excitement_level > 0.8 excited,
\* recursive_loop_count >= 3 recursive, addictive_behavior_score >= 0.6
\* addictive, burnout_risk >= 0.8 overwhelmed, else stable.
C24_StatusAfterDecisionFollowsPriority ==
  lastOp.name = "update_from_decision" => monitor.metrics.status = PriorityStatus

\* high stress together with three counted loops is reported as stressed
C24_Witness ==
  /\ lastOp.name = "update_from_decision"
  /\ monitor.metrics.stress_level > PctToNano(70)
  /\ monitor.metrics.recursive_loop_count >= 3
  /\ monitor.metrics.status = "stressed"

\* C25: the Learn phase first records the decision in the tracker, then
\* updates the monitor from the same summary, then hands the monitor's
\* metrics to the tracker's update_mental_health.  A cycle that stops after
\* the first update has a longer tracker history, an untouched monitor and
\* the tracker's mental health as it was before the cycle (what the
\* progression assessment of record_decision saw); one that stops after the
\* second has the monitor updated from the summary the tracker recorded and
\* nothing handed over or saved yet; a completed cycle has handed over the
\* metrics update_from_decision produced.
C25_LearnUpdatesInOrder ==
  [][DecideStep =>
       /\ lastOp'.fail = "learn_0" =>
            /\ tracker'.decision_history = tracker.decision_history
            /\ monitor'.decision_history = monitor.decision_history
       /\ lastOp'.fail = "learn_1" =>
            /\ Len(tracker'.decision_history) = Len(tracker.decision_history) + 1
            /\ monitor'.decision_history = monitor.decision_history
            /\ monitor'.metrics = monitor.metrics
            /\ tracker'.mental_health = tracker.mental_health
       /\ lastOp'.fail = "learn_2" =>
            /\ Len(tracker'.decision_history) = Len(tracker.decision_history) + 1
            /\ monitor'.decision_history = Append(monitor.decision_history, CycleDecisionData)
            /\ monitor'.metrics = update_from_decision(monitor, CycleDecisionData).metrics
            /\ tracker'.stored_mental_health = tracker.stored_mental_health
            /\ tracker'.learning_events = tracker.learning_events
       /\ response'.kind = "cycle" =>
            /\ Len(tracker'.decision_history) = Len(tracker.decision_history) + 1
            /\ monitor'.decision_history = Append(monitor.decision_history, CycleDecisionData)
            /\ aliased'
            /\ tracker'.mental_health = monitor'.metrics
            /\ tracker'.stored_mental_health = update_from_decision(monitor, CycleDecisionData).metrics]_vars

\* a second cycle that stopped after record_decision: the tracker has two
\* decisions and the metrics handed over by the first cycle, the monitor has
\* the first decision only
C25_Witness ==
  /\ lastOp.name = "decide"
  /\ lastOp.fail = "learn_1"
  /\ orientation.cycle_count = 2
  /\ Len(tracker.decision_history) = 2
  /\ Len(monitor.decision_history) = 1
  /\ aliased
  /\ tracker.mental_health = monitor.metrics
  /\ tracker.mental_health.stress_level > 0

\* new is old with one entry appended, after the oldest entry was dropped if
\* old held limit entries: the entries kept are in their old order
AppendedWithin(old, new, limit) ==
  IF Len(old) < limit
  THEN /\ Len(new) = Len(old) + 1
       /\ \A i \in 1..Len(old) : new[i] = old[i]
  ELSE /\ Len(new) = limit
       /\ \A i \in 1..(limit - 1) : new[i] = old[i + 1]

\* C26: the monitor's decision history never holds more than 100 entries,
\* its thought patterns never more than 50, its emotional events never more
\* than 200; an operation appends one entry to its history, evicting the
\* oldest entry of a full history and keeping the order of the others, and
\* leaves the other two histories alone.
C26_HistoriesBoundedOldestEvicted ==
  [][/\ Len(monitor'.decision_history) <= 100
     /\ Len(monitor'.thought_patterns) <= 50
     /\ Len(monitor'.emotional_events) <= 200
     /\ IF lastOp'.name = "update_from_decision"
        THEN /\ AppendedWithin(monitor.decision_history, monitor'.decision_history, 100)
             /\ monitor'.decision_history[Len(monitor'.decision_history)].src = lastOp'.arg
        ELSE monitor'.decision_history = monitor.decision_history
     /\ IF lastOp'.name = "update_from_thought_pattern"
        THEN /\ AppendedWithin(monitor.thought_patterns, monitor'.thought_patterns, 50)
             /\ monitor'.thought_patterns[Len(monitor'.thought_patterns)].type = lastOp'.arg
        ELSE monitor'.thought_patterns = monitor.thought_patterns
     /\ IF lastOp'.name = "record_emotional_event"
        THEN /\ AppendedWithin(monitor.emotional_events, monitor'.emotional_events, 200)
             /\ monitor'.emotional_events[Len(monitor'.emotional_events)].type = lastOp'.arg
        ELSE monitor'.emotional_events = monitor.emotional_events]_vars

\* a full decision history that has lost its first entry and its second
\* entry, and still starts with the oldest entry left
C26_Witness ==
  /\ lastOp.name = "update_from_decision"
  /\ Len(monitor.decision_history) = 100
  /\ monitor.decision_history[1].vsp_level = 3
  /\ monitor.decision_history[97].vsp_level = 99
  /\ Len(monitor.thought_patterns) = 49

\* max(1, p): p starts as the base points of the event type, is truncated
\* after the multiplication by quality and again after the one by
\* 1 + complexity (hundredths; -1 stands for a key that is absent)
StatedGain(event_type, outcome) ==
  LET base == CASE event_type = "successful_decision" -> 10
                [] event_type = "failed_decision" -> 5
                [] event_type = "complex_task" -> 15
                [] event_type = "safety_violation" -> 2
                [] event_type = "mental_health_intervention" -> 3
                [] event_type \in {"recursive_loop_detected", "addictive_behavior_detected"} -> 1
                [] OTHER -> 1
      scaled == IF outcome.quality = -1 THEN base ELSE (base * outcome.quality) \div 100
      weighted == IF outcome.complexity = -1 THEN scaled
                  ELSE (scaled * (100 + outcome.complexity)) \div 100
  IN IF weighted > 1 THEN weighted ELSE 1

\* the learning events a step recorded
NewEvents == SubSeq(tracker'.learning_events, Len(tracker.learning_events) + 1, Len(tracker'.learning_events))

Candidates == orientation.planned.candidate_plans

\* C28: the Plan phase generates exactly the candidates conservative and
\* balanced at infant and child, and these two followed by the aggressive
\* candidate (7 steps, quality 0.6, risk 0.6, spend 1.0) at adolescent and
\* adult.
C28_AggressiveOnlyWhenMature ==
  (lastOp.name = "decide" /\ response.kind = "cycle") =>
    /\ Len(Candidates) = IF trace.maturity_level \in {"adolescent", "adult"} THEN 3 ELSE 2
    /\ Candidates[1].strategy = "conservative"
    /\ Candidates[2].strategy = "balanced"
    /\ Len(Candidates) = 3 =>
         /\ Candidates[3].strategy = "aggressive"
         /\ Candidates[3].steps = 7
         /\ Candidates[3].estimates = [quality |-> 60, risk |-> 60, spend |-> 100]
    /\ Len(trace.candidates) = Len(Candidates)

\* the first cycle of an engine at child level had two candidates
C28_Witness ==
  /\ lastOp.name = "decide"
  /\ response.kind = "cycle"
  /\ orientation.cycle_count = 1
  /\ trace.maturity_level = "child"
  /\ Len(Candidates) = 2

\* the fallback plans of the latest Plan phase
Fallbacks == orientation.planned.fallback_plans

\* C29: after the Plan phase the number of fallback plans is N - 1, N being
\* the fallback_plans value of the level (infant 3, child 2, adolescent 1,
\* adult 1); the fallbacks are the candidates ranked right after the winner,
\* in descending order of utility, and the winner is not among them.
C29_FallbacksAreNextBest ==
  (lastOp.name = "decide" /\ response.kind = "cycle") =>
    /\ Len(Fallbacks) = (CASE trace.maturity_level = "infant" -> 3
                           [] trace.maturity_level = "child" -> 2
                           [] OTHER -> 1) - 1
    /\ \A k \in DOMAIN Fallbacks :
         /\ Fallbacks[k].id = trace.candidates[k + 1].id
         /\ Fallbacks[k].id # trace.winner
    /\ \A k \in 1..(Len(trace.candidates) - 1) : trace.candidates[k].U >= trace.candidates[k + 1].U

\* C30: the decoding mode of a cycle is crisis when the request's urgency is
\* above 0.9 or V_SP above 0.8; otherwise deep when the request's complexity
\* is above 0.7 or the goal is classified analyze or plan; otherwise flow.
C30_DecodingModeByPriority ==
  (lastOp.name = "decide" /\ response.kind = "cycle") =>
    trace.mode =
      IF lastOp.request.urgency > 90 \/ trace.vsp > 80 THEN "crisis"
      ELSE IF lastOp.request.complexity > 70
                \/ _classify_goal_type(lastOp.request.goal) \in {"analyze", "plan"} THEN "deep"
      ELSE "flow"

\* the monitor a monitor without personality would be after the same decision
PlainAfter(d) ==
  update_from_decision([monitor EXCEPT !.personality_influence = NoPersonality], d)

\* C31: a decision leaves a monitor with analytical > 0.7 with less stress
\* and excitement, and a monitor with analytical < 0.3 with more, than it
\* leaves a monitor without personality that had the same metrics (wherever
\* that monitor keeps some of the emotion).
C31_DecayDependsOnPersonality ==
  [][ \A d \in MonitorDecisions :
        (lastOp'.name = "update_from_decision" /\ lastOp'.arg = d.src
           /\ monitor.personality_influence # NoPersonality) =>
          LET plain == PlainAfter(d).metrics
              own == monitor'.metrics
              analytical == monitor.personality_influence.analytical
          IN /\ (analytical > 70 /\ plain.stress_level > 0) => own.stress_level < plain.stress_level
             /\ (analytical > 70 /\ plain.excitement_level > 0) =>
                  own.excitement_level < plain.excitement_level
             /\ (analytical < 30 /\ plain.stress_level > 0) => own.stress_level > plain.stress_level
             /\ (analytical < 30 /\ plain.excitement_level > 0) =>
                  own.excitement_level > plain.excitement_level ]_vars

\* C32: after five calls of update_from_thought_pattern on a fresh monitor,
\* each with repetition_count 3 and similarity_score 0.9 and neither inputs
\* nor outputs, recursive_loop_count is above 0.
C32_RepeatedPatternIsDetected ==
  (lastOp.name = "update_from_thought_pattern"
     /\ monitor.thought_patterns = [i \in 1..5 |-> TestRecursivePattern]) =>
    monitor.metrics.recursive_loop_count > 0

\* every string of recs is among the recommendations of the response r
Recommends(r, recs) ==
  \A i \in DOMAIN recs : \E j \in DOMAIN r.recommendations : r.recommendations[j] = recs[i]

\* the monitor's intervention recommendations for a status
RecommendationsFor(status) ==
  get_intervention_recommendations([metrics |-> [status |-> status]])

\* C33: when the response of a completed cycle reports a status other than
\* stable, its recommendations include the monitor's intervention
\* recommendations for that status.
C33_UnstableStatusIsRecommendedFor ==
  (lastOp.name = "decide" /\ response.kind = "cycle"
     /\ response.mental_health_status # "stable") =>
    Recommends(response, RecommendationsFor(response.mental_health_status))

\* C34: shutdown completes without raising and leaves is_initialized false,
\* so the caller of make_decision gets the response decide produced.
C34_MakeDecisionReturnsResponse ==
  lastOp.name = "make_decision" =>
    /\ lastOp.arg = "none"
    /\ ~engine.is_initialized
    /\ response.kind \in ResponseKinds

\* the weighted sum of the four factor assessments of the plan's goal type,
\* each factor weighted by the heuristic named after it, in thousandths
StatedWeightedQuality(plan) ==
  LET heuristics == IF plan.goal.type \in DOMAIN quality_heuristics
                    THEN quality_heuristics[plan.goal.type] ELSE quality_heuristics["tool"]
      factors == quality_factors(plan)
  IN SumOver([k \in DOMAIN factors |-> heuristics[k \o "_weight"] * factors[k]], DOMAIN factors) \div 100

\* C35: the quality component of calculate_utility is
\* min(1, 0.7 x estimates.quality + 0.3 x W), W the sum over the goal type's
\* four quality factors of heuristic weight times factor assessment.
C35_QualityBlendsEstimateAndFactors ==
  (lastOp.name = "calculate_utility" /\ lastOp.arg = "basic") =>
    response.components.quality =
      Min(Milli, (7 * lastOp.request.plan.estimates.quality * 10
                    + 3 * StatedWeightedQuality(lastOp.request.plan)) \div 10)

GatedByMentalHealth(M, t) ==
  \/ M.last_intervention = -1 /\ should_intervene(M, t)
  \/ M.metrics.recursive_loop_count >= 3
  \/ M.metrics.status = "overwhelmed"

\* C37: once decide is gated by mental health, a decide call returns
\* confidence 0.0 for any request and changes no mental-health metric, so
\* the gate is still closed after it: a run of decide calls never reopens it.
C37_GateStaysClosedUnderDecide ==
  [][(GatedByMentalHealth(monitor, now) /\ DecideStep) =>
       /\ response'.confidence = 0
       /\ monitor'.metrics = monitor.metrics
       /\ tracker'.mental_health = tracker.mental_health
       /\ GatedByMentalHealth(monitor', now')]_vars

\* three decide calls in a row on an engine whose monitor was gated from the
\* start, the last one answered with the intervention response
C37_Witness ==
  /\ lastOp.name = "decide"
  /\ lastOp.n = 3
  /\ engine.total_requests = 3
  /\ engine.total_decisions = 0
  /\ response.kind = "intervention"
  /\ GatedByMentalHealth(monitor, now)


\* C38: a tracker whose profile has age_months 0 changes its level in no call
\* but force_maturity_progression, and no call changes age_months: the
\* readiness check stops at the age of the next level
C38_LevelChangesOnlyWhenForced ==
  [][(tracker.profile.age_months = 0 /\ lastOp'.name # "force_maturity_progression")
       => /\ tracker'.profile.level = tracker.profile.level
          /\ tracker'.profile.age_months = 0]_vars

\* an infant of age 0 that has the experience, the mental health and the
\* recent good decisions the child level asks for, after one more decision
C38_Witness ==
  /\ lastOp.name = "record_decision"
  /\ tracker.profile.level = "infant"
  /\ tracker.profile.age_months = 0
  /\ ReadyAtAnyAge(tracker, "child")
  /\ tracker.progressions = << >>

\* the plan a completed cycle selected, among the candidates of its Plan phase
SelectedPlan ==
  CHOOSE plan \in {orientation.planned.candidate_plans[i] : i \in DOMAIN orientation.planned.candidate_plans} :
    plan.id = response.plan_id

\* C39: at every maturity level and for every goal type a completed cycle
\* selects the conservative candidate (3 steps, quality 0.8, risk 0.2, spend
\* 0.6), whose score is above the score of every other candidate; the plan
\* passes validation and the Act phase finds it ready for execution
C39_ConservativePlanIsSelected ==
  (lastOp.name = "decide" /\ response.kind = "cycle") =>
    /\ trace.winner = <<orientation.cycle_count, "conservative">>
    /\ response.plan_id = trace.winner
    /\ SelectedPlan.steps = 3
    /\ SelectedPlan.estimates = [quality |-> 80, risk |-> 20, spend |-> 60]
    /\ \A i \in DOMAIN trace.candidates :
         trace.candidates[i].id # trace.winner => trace.candidates[i].U < trace.candidates[1].U
    /\ _validate_plan(SelectedPlan)
    /\ _act(Begin, [selected_plan |-> SelectedPlan]).ready_for_execution

\* a completed cycle at the adult level, on a request of goal type
\* retrieve, with three candidates scored
C39_Witness ==
  /\ lastOp.name = "decide"
  /\ response.kind = "cycle"
  /\ tracker.profile.level = "adult"
  /\ _classify_goal_type(lastOp.request.goal) = "retrieve"
  /\ Len(trace.candidates) = 3
  /\ trace.winner = <<orientation.cycle_count, "conservative">>

\* C40: the confidence of a completed cycle is below the confidence_threshold
\* of the current level (infant 0.9, child 0.8, adolescent 0.7, adult 0.6)
\* and below 0.7; the response carries the "Low confidence" warning and the
\* recommendation to gather more information
C40_CompletedCycleIsLowConfidence ==
  (lastOp.name = "decide" /\ response.kind = "cycle") =>
    /\ tracker.profile.confidence_threshold
         = MATURITY_CONFIGS[tracker.profile.level].confidence_threshold
    /\ response.confidence < PctToMicro(tracker.profile.confidence_threshold)
    /\ response.confidence < PctToMicro(70)
    /\ HasWarning(response, "Low confidence", "threshold")
    /\ Recommends(response, <<"Consider gathering more information before deciding">>)

\* a question answered at the adult level: the conservative plan scores
\* 0.25 * 0.96 + 0.3 * 0.8 - 0.2 * 0.2 - 0.25 * 0.6 = 0.29, below 0.6
C40_Witness ==
  /\ lastOp.name = "decide"
  /\ response.kind = "cycle"
  /\ tracker.profile.level = "adult"
  /\ tracker.profile.confidence_threshold = 60
  /\ response.confidence = PctToMicro(29)
  /\ HasWarning(response, "Low confidence", "threshold")

========================================================================
